---- MODULE Spec2Model ----
(***************************************************************************)
(* Verification model of obsidian-notion-database-sync.                    *)
(*                                                                         *)
(* Three state machines share this module, each with its own variables    *)
(* and its own specification:                                              *)
(*   SpecClient  notion-client.ts: throttle and notionRequest, called by   *)
(*               several callers that interleave at every await;           *)
(*   SpecFetch   queryAllEntries / fetchAllChildren: the cursor loop;      *)
(*   Spec        database-freezer.ts: freshDatabaseImport, refreshDatabase *)
(*               and the legacy freezeDatabase over a vault of files.      *)
(* A specification leaves the variables of the other machines untouched.   *)
(***************************************************************************)
EXTENDS Integers, Sequences, FiniteSets, TLC

VARIABLES
    \* ---- notion-client.ts
    elapsed,     \* Date.now() - lastRequestTime, saturating at MIN_REQUEST_INTERVAL_MS
    req,         \* per caller: the notionRequest call it is in
    sinceStart,  \* history: time since the latest start of a wrapped operation
    lastGap,     \* history: the spacing from the previous start, when the step
                 \*          just taken started a wrapped operation
    caught,      \* history: what the catch block did, when the step just taken ran it
    \* ---- the cursor loops: queryAllEntries, fetchAllChildren
    chain,       \* the remote result set: the pages the server holds, in order
    fetcher,     \* which loop runs: "queryAllEntries" or "fetchAllChildren"
    fpc,         \* "loop", "returned" or "threw"
    cursor,      \* let cursor (NoCursor = undefined)
    fetched,     \* const entries / const blocks
    requests,    \* history: the start_cursor of every request sent
    \* ---- database-freezer.ts over the vault and the remote collection
    remote,      \* the rows of the remote collection, by row id
    vault,       \* the markdown files of the collection's folder, in the order
                 \* they were created
    stray,       \* whether a markdown file elsewhere in the vault carries the
                 \* collection's id in notion-database-id
    folder,      \* whether the collection's folder exists
    base,        \* the .base view descriptor: "absent" or "written"
    run,         \* the orchestrator run in progress (pc = "idle" between runs)
    wrote,       \* history: the vault write of the step just taken
    nruns,       \* runs started so far
    nchanges,    \* remote changes so far
    settled,     \* history: a refresh has completed and nothing has changed since
    \* ---- block-converter.ts: one conversion
    cvJob,       \* what is converted: a block sequence, a rich text or a table
    cvPc,        \* "start" or "returned"
    cvOut,       \* the outcome: [threw, text, lines]
    \* ---- two fresh imports of one collection, started from the modal
    imp,         \* per import: where freshDatabaseImport is and its locals
    rvault,      \* the markdown files of the vault, by output folder
    rfolders,    \* the collection folders that exist
    rrows        \* the number of rows the query returns

clientVars == <<elapsed, req, sinceStart, lastGap, caught>>
fetchVars == <<chain, fetcher, fpc, cursor, fetched, requests>>
syncVars == <<remote, vault, stray, folder, base, run, wrote, nruns, nchanges, settled>>
convVars == <<cvJob, cvPc, cvOut>>
raceVars == <<imp, rvault, rfolders, rrows>>
vars == <<clientVars, fetchVars, syncVars, convVars, raceVars>>

\* what a step of one machine leaves alone: the other machines
ClientFrame == UNCHANGED <<fetchVars, syncVars, convVars, raceVars>>
FetchFrame == UNCHANGED <<clientVars, syncVars, convVars, raceVars>>
SyncFrame == UNCHANGED <<clientVars, fetchVars, convVars, raceVars>>
ConvFrame == UNCHANGED <<clientVars, fetchVars, syncVars, raceVars>>
RaceFrame == UNCHANGED <<clientVars, fetchVars, syncVars, convVars>>

-----------------------------------------------------------------------------
(* notion-client.ts.  Date.now() is only ever used in differences, so the  *)
(* clock is kept as the differences the code computes: elapsed is          *)
(* now - lastRequestTime (throttle reads nothing else of it, and only      *)
(* below MIN_REQUEST_INTERVAL_MS), and each pending setTimeout keeps the   *)
(* time that remains until it may fire.  setTimeout promises a minimum: a  *)
(* timer fires at its expiry or any time later.  Callers arrive at any     *)
(* time and timers may fire late, so a timer longer than the throttle      *)
(* window constrains no step beyond the window, and its remaining time is  *)
(* kept up to the window only (the delay it was set to is kept in caught). *)

MAX_RETRIES == 5
MIN_REQUEST_INTERVAL_MS == 340
BACKOFF_BASE_MS == 1000
BACKOFF_CAP_MS == 30000

\* status of an error that carries no status field
NoStatus == 0
\* an error without headers["retry-after"]
NoHint == -1
\* no earlier start of a wrapped operation
NoGap == -1

\* clock granularity of the model
TickMs == 170
\* Math.random() takes the values r / RandSteps, r in 0 .. RandSteps-1
RandSteps == 4

Callers == {"run1", "run2"}
Statuses == {429, 500, 502, 503, 504, 400, 404, NoStatus}
\* Retry-After values, in seconds
Hints == {NoHint, 0, 2}
\* a Retry-After header comes with a 429, and here with one 503 as well
Errors == {e \in [status : Statuses, hint : Hints] :
              e.hint # NoHint => e.status \in {429, 503}}
NoError == [status |-> NoStatus, hint |-> NoHint]
\* line 79's new Error("notionRequest: exhausted retries")
ExhaustedError == [status |-> NoStatus, hint |-> NoHint, exhausted |-> TRUE]

Min(a, b) == IF a < b THEN a ELSE b
Max(a, b) == IF a > b THEN a ELSE b

RECURSIVE Pow2(_)
Pow2(n) == IF n = 0 THEN 1 ELSE 2 * Pow2(n - 1)

\* a retry test that also takes a 404 for transient
IsRetryableAlso404(status) ==
    status = 429 \/ status = 500 \/ status = 502 \/ status = 503 \/ status = 504
    \/ status = 404

\* lines 47-52
IsRetryable(status) ==
    status = 429 \/ status = 500 \/ status = 502 \/ status = 503 \/ status = 504

\* a backoff that counts the retries from 1
BaseDelayFromOne(err, attempt) ==
    IF err.status = 429 /\ err.hint # NoHint
    THEN err.hint * 1000
    ELSE BACKOFF_BASE_MS * Pow2(attempt + 1)

\* lines 55-64: the delay before jitter
BaseDelay(err, attempt) ==
    IF err.status = 429
    THEN IF err.hint # NoHint
         THEN err.hint * 1000
         ELSE BACKOFF_BASE_MS * Pow2(attempt)
    ELSE BACKOFF_BASE_MS * Pow2(attempt)

\* line 66: delay * 0.25 * (Math.random() * 2 - 1), Math.random() = r / RandSteps
Jitter(delay, r) == (delay * 25 * (2 * r - RandSteps)) \div (100 * RandSteps)

\* line 67
RetryDelay(err, attempt, r) ==
    Min(BaseDelay(err, attempt) + Jitter(BaseDelay(err, attempt), r), BACKOFF_CAP_MS)

\* a retry test that lets the last attempt back off too
MayRetryOnLast(err, attempt) == IsRetryable(err.status) /\ attempt < MAX_RETRIES

\* line 54
MayRetry(err, attempt) == IsRetryable(err.status) /\ attempt < MAX_RETRIES - 1

\* what a catch block did: the error caught in which attempt of which caller,
\* and either the delay it slept (retry) or the error it threw
NoCatch == [by |-> "none"]
CatchOf(p, attempt, err, r) ==
    IF MayRetry(err, attempt)
    THEN [by |-> p, attempt |-> attempt, err |-> err, retry |-> TRUE,
          delay |-> RetryDelay(err, attempt, r), thrown |-> NoError]
    ELSE [by |-> p, attempt |-> attempt, err |-> err, retry |-> FALSE,
          delay |-> 0, thrown |-> err]

\* pc: idle, throttle, throttleSleep, inflight, backoffSleep, returned, threw.
\* calls, throttles, backoffs count fn(), throttle() and sleep(delay) in this call;
\* failed: whether the latest attempt failed.
IdleReq ==
    [pc |-> "idle", attempt |-> 0, remaining |-> 0, failed |-> FALSE,
     calls |-> 0, throttles |-> 0, backoffs |-> 0]

ClientInit ==
    /\ elapsed = MIN_REQUEST_INTERVAL_MS
    /\ sinceStart = NoGap
    /\ req = [p \in Callers |-> IdleReq]
    /\ lastGap = NoGap
    /\ caught = NoCatch

\* line 37 and then line 44: lastRequestTime = Date.now(), and fn() is invoked
StartOp(p, r) ==
    /\ elapsed' = 0
    /\ req' = [req EXCEPT ![p] = [r EXCEPT !.pc = "inflight", !.remaining = 0,
                                           !.calls = r.calls + 1]]
    /\ lastGap' = sinceStart
    /\ sinceStart' = 0
    /\ caught' = NoCatch

\* a caller enters notionRequest (line 40): attempt = 0, first loop test passes
Call(p) ==
    /\ ClientFrame
    /\ req[p].pc = "idle"
    /\ req' = [req EXCEPT ![p] = [IdleReq EXCEPT !.pc = "throttle"]]
    /\ lastGap' = NoGap
    /\ caught' = NoCatch
    /\ UNCHANGED <<elapsed, sinceStart>>

\* throttle() up to its await (lines 32-36); without a sleep it runs on to
\* line 37 and the awaiting notionRequest goes on to fn() (line 44)
ThrottleEnter(p) ==
    /\ ClientFrame
    /\ req[p].pc = "throttle"
    /\ LET r == [req[p] EXCEPT !.throttles = req[p].throttles + 1]
       IN  IF elapsed < MIN_REQUEST_INTERVAL_MS
           THEN /\ req' = [req EXCEPT ![p] =
                       [r EXCEPT !.pc = "throttleSleep",
                                 !.remaining = MIN_REQUEST_INTERVAL_MS - elapsed]]
                /\ lastGap' = NoGap
                /\ caught' = NoCatch
                /\ UNCHANGED <<elapsed, sinceStart>>
           ELSE StartOp(p, r)

\* the sleep of line 35 is over: line 37, then fn() (line 44)
ThrottleWake(p) ==
    /\ ClientFrame
    /\ req[p].pc = "throttleSleep"
    /\ req[p].remaining = 0
    /\ StartOp(p, req[p])

\* fn() resolves: notionRequest returns its value (line 44)
OpSucceeds(p) ==
    /\ ClientFrame
    /\ req[p].pc = "inflight"
    /\ req' = [req EXCEPT ![p] = [@ EXCEPT !.pc = "returned", !.failed = FALSE]]
    /\ lastGap' = NoGap
    /\ caught' = NoCatch
    /\ UNCHANGED <<elapsed, sinceStart>>

\* fn() rejects with err: the catch block, lines 45-77
OpFails(p) ==
    /\ ClientFrame
    /\ req[p].pc = "inflight"
    /\ \E err \in Errors, r \in 0 .. RandSteps - 1 :
          /\ caught' = CatchOf(p, req[p].attempt, err, r)
          /\ req' = [req EXCEPT ![p] =
                 IF caught'.retry
                 THEN [@ EXCEPT !.pc = "backoffSleep", !.failed = TRUE,
                                !.remaining = Max(0, Min(caught'.delay,
                                                 MIN_REQUEST_INTERVAL_MS)),
                                !.backoffs = @ + 1]
                 ELSE [@ EXCEPT !.pc = "threw", !.failed = TRUE]]
    /\ lastGap' = NoGap
    /\ UNCHANGED <<elapsed, sinceStart>>

\* a loop whose continue does not count the attempt
BackoffWakeSameAttempt(p) ==
    /\ ClientFrame
    /\ req[p].pc = "backoffSleep"
    /\ req[p].remaining = 0
    /\ req' = [req EXCEPT ![p] = [@ EXCEPT !.pc = "throttle"]]
    /\ caught' = NoCatch
    /\ lastGap' = NoGap
    /\ UNCHANGED <<elapsed, sinceStart>>

\* the sleep of line 73 is over: continue, attempt++ and the loop test
\* (line 41); line 79 follows a failed test
BackoffWake(p) ==
    /\ ClientFrame
    /\ req[p].pc = "backoffSleep"
    /\ req[p].remaining = 0
    /\ IF req[p].attempt + 1 < MAX_RETRIES
       THEN /\ req' = [req EXCEPT ![p] = [@ EXCEPT !.pc = "throttle",
                                                  !.attempt = @ + 1]]
            /\ caught' = NoCatch
       ELSE /\ req' = [req EXCEPT ![p] = [@ EXCEPT !.pc = "threw",
                                                  !.attempt = @ + 1]]
            /\ caught' = [by |-> p, attempt |-> req[p].attempt + 1,
                          err |-> NoError, retry |-> FALSE, delay |-> 0,
                          thrown |-> ExhaustedError]
    /\ lastGap' = NoGap
    /\ UNCHANGED <<elapsed, sinceStart>>

\* the caller has its result and may call again
Finish(p) ==
    /\ ClientFrame
    /\ req[p].pc \in {"returned", "threw"}
    /\ req' = [req EXCEPT ![p] = IdleReq]
    /\ lastGap' = NoGap
    /\ caught' = NoCatch
    /\ UNCHANGED <<elapsed, sinceStart>>

Sleeping(p) == req[p].pc \in {"throttleSleep", "backoffSleep"}

Advance(clock, d) ==
    IF clock = NoGap THEN NoGap ELSE Min(clock + d, MIN_REQUEST_INTERVAL_MS)

\* time passes, by one tick or up to the expiry of a pending timer
Tick ==
    /\ ClientFrame
    /\ \E d \in {TickMs} \cup {req[p].remaining : p \in {q \in Callers : Sleeping(q)}} :
          /\ d > 0
          /\ elapsed' = Advance(elapsed, d)
          /\ sinceStart' = Advance(sinceStart, d)
          /\ req' = [p \in Callers |->
                        IF Sleeping(p)
                        THEN [req[p] EXCEPT !.remaining = Max(@ - d, 0)]
                        ELSE req[p]]
          /\ req' # req \/ elapsed' # elapsed
    /\ lastGap' = NoGap
    /\ caught' = NoCatch

ClientNext ==
    \/ \E p \in Callers : Call(p)
    \/ \E p \in Callers : ThrottleEnter(p)
    \/ \E p \in Callers : ThrottleWake(p)
    \/ \E p \in Callers : OpSucceeds(p)
    \/ \E p \in Callers : OpFails(p)
    \/ \E p \in Callers : BackoffWake(p)
    \/ \E p \in Callers : Finish(p)
    \/ Tick

\* the client at rest, for the specifications of the other machines
ClientParked ==
    /\ elapsed = MIN_REQUEST_INTERVAL_MS
    /\ sinceStart = NoGap
    /\ req = [p \in Callers |-> IdleReq]
    /\ lastGap = NoGap
    /\ caught = NoCatch

-----------------------------------------------------------------------------
(* The cursor loops: queryAllEntries (database-freezer.ts 230-256) and     *)
(* fetchAllChildren (block-converter.ts 274-298).  The server holds a      *)
(* finite chain of pages; the request with no cursor gets the first page,  *)
(* the request with cursor i the page after page i.                        *)

\* the longest chain of pages
MaxPages == 3
\* the sizes of one page of results
PageSizes == {0, 1, 2}
\* start_cursor: undefined
NoCursor == 0

\* results of dataSources.query: full pages, a partial page, a data source
QueryItems ==
    { [id |-> 1, object |-> "page", hasProperties |-> TRUE, hasType |-> FALSE],
      [id |-> 2, object |-> "page", hasProperties |-> TRUE, hasType |-> FALSE],
      [id |-> 3, object |-> "page", hasProperties |-> FALSE, hasType |-> FALSE],
      [id |-> 4, object |-> "data_source", hasProperties |-> TRUE, hasType |-> FALSE] }
\* results of blocks.children.list: full blocks and a partial block
BlockItems ==
    { [id |-> 1, object |-> "block", hasProperties |-> FALSE, hasType |-> TRUE],
      [id |-> 2, object |-> "block", hasProperties |-> FALSE, hasType |-> TRUE],
      [id |-> 3, object |-> "block", hasProperties |-> FALSE, hasType |-> FALSE] }

ItemsOf(f) == IF f = "queryAllEntries" THEN QueryItems ELSE BlockItems

SeqsOver(S, lens) == UNION {[1 .. n -> S] : n \in lens}

\* database-freezer.ts 246 / block-converter.ts 290
Accepted(f, item) ==
    IF f = "queryAllEntries"
    THEN item.object = "page" /\ item.hasProperties
    ELSE item.hasType

\* the for loop over response.results (246-249 / 289-293)
RECURSIVE PushAccepted(_, _, _)
PushAccepted(f, acc, results) ==
    IF results = <<>> THEN acc
    ELSE PushAccepted(f,
                      IF Accepted(f, Head(results)) THEN Append(acc, Head(results))
                      ELSE acc,
                      Tail(results))

\* the server's answer to a request with start_cursor c
Response(c) ==
    [results |-> chain[c + 1],
     has_more |-> c + 1 < Len(chain),
     next_cursor |-> IF c + 1 < Len(chain) THEN c + 1 ELSE NoCursor]

\* a loop that gives up at an empty page
NextCursorStopAtEmpty(response) ==
    IF response.has_more /\ response.results # <<>>
    THEN response.next_cursor ELSE NoCursor

\* lines 250-252: response.has_more ? (response.next_cursor ?? undefined) : undefined
NextCursor(response) ==
    IF response.has_more THEN response.next_cursor ELSE NoCursor

FetchInit ==
    /\ fetcher \in {"queryAllEntries", "fetchAllChildren"}
    /\ chain \in SeqsOver(SeqsOver(ItemsOf(fetcher), PageSizes), 1 .. MaxPages)
    /\ fpc = "loop"
    /\ cursor = NoCursor
    /\ fetched = <<>>
    /\ requests = <<>>

\* one turn of the do-while: the request succeeds
FetchPage ==
    /\ FetchFrame
    /\ fpc = "loop"
    /\ LET response == Response(cursor)
       IN  /\ requests' = Append(requests, cursor)
           /\ fetched' = PushAccepted(fetcher, fetched, response.results)
           /\ cursor' = NextCursor(response)
           /\ fpc' = IF NextCursor(response) # NoCursor THEN "loop" ELSE "returned"
    /\ UNCHANGED <<chain, fetcher>>

\* one turn of the do-while: notionRequest throws, and so does the loop
FetchThrows ==
    /\ FetchFrame
    /\ fpc = "loop"
    /\ requests' = Append(requests, cursor)
    /\ fpc' = "threw"
    /\ UNCHANGED <<chain, fetcher, cursor, fetched>>

FetchNext == FetchPage \/ FetchThrows

FetchParked ==
    /\ chain = <<>>
    /\ fetcher = "queryAllEntries"
    /\ fpc = "returned"
    /\ cursor = NoCursor
    /\ fetched = <<>>
    /\ requests = <<>>

-----------------------------------------------------------------------------
-----------------------------------------------------------------------------
(* database-freezer.ts: the vault, the remote collection and one           *)
(* orchestrator run at a time.  The run is cut at its awaits.              *)

\* row ids 1 .. MaxRows, last_edited_time values 1 .. MaxStamp
MaxRows == 2
MaxStamp == 2
\* runs started and remote changes made in one behaviour
MaxRuns == 3
MaxChanges == 2

RowIds == 1 .. MaxRows
Stamps == 1 .. MaxStamp
\* the titles of rows; a record's file is named after its row's title
Titles == {"A", "B"}
\* frontmatter without notion-id / without notion-last-edited
NoId == 0
NoStamp == 0
\* the collection the runs are about, and the value of a file without the marker
ThisDb == "db"
NoDb == "none"
\* the path of a note the user wrote
NotePath == "N"
\* such a note is plain, or has CRLF line ends, or quotes the text
\* "notion-deleted: true" in its body
NoteKinds == {"plain", "crlf", "quoting"}
\* the rows such a note may name in its notion-id
NoteIds == {1}

\* the titles a row may have at first: titles need not differ between rows;
\* the first row's is called "A"
InitTitles(id) == IF id = 1 THEN {"A"} ELSE Titles

\* a remote row: its last_edited_time and title; present: the query returns it
RowStates == [present : BOOLEAN, edited : Stamps, title : Titles]

\* the page object the query returns for row id
Entry(id) == [id |-> id, last_edited_time |-> remote[id].edited,
              title |-> remote[id].title]

\* the rows the query returns, in the order the server keeps them
RECURSIVE RowsFrom(_)
RowsFrom(id) ==
    IF id > MaxRows THEN <<>>
    ELSE (IF remote[id].present THEN <<Entry(id)>> ELSE <<>>) \o RowsFrom(id + 1)

\* A markdown file of the collection's folder: its path, whether the metadata
\* cache finds a front matter block in it (fm), whether its content starts with
\* "---\n" and holds a closing "\n---" (lf; false for a block with CRLF line
\* ends), the values the cache reads from the block, and how many times the
\* text "notion-deleted: true" stands in the block and in the body.
File(path, id, edited, db) ==
    [path |-> path, fm |-> TRUE, lf |-> TRUE, id |-> id, edited |-> edited,
     db |-> db, headerFlags |-> 0, bodyFlags |-> 0]

\* app.vault.getAbstractFileByPath in the collection's folder: index or 0
RECURSIVE IndexOfPath(_, _, _)
IndexOfPath(files, path, i) ==
    IF i > Len(files) THEN 0
    ELSE IF files[i].path = path THEN i
    ELSE IndexOfPath(files, path, i + 1)

\* metadataCache frontmatter["notion-id"] etc.: read from the front matter
CacheId(f) == IF f.fm THEN f.id ELSE NoId
CacheEdited(f) == IF f.fm THEN f.edited ELSE NoStamp
CacheDb(f) == IF f.fm THEN f.db ELSE NoDb

\* scanLocalFiles (258-276): a Map from notion-id to file, here the sequence
\* of its [id, path] pairs in insertion order; map.set on a key it holds keeps
\* the key's place and takes the later file
RECURSIVE MapSet(_, _, _)
MapSet(map, id, path) ==
    IF map = <<>> THEN <<[id |-> id, path |-> path]>>
    ELSE IF Head(map).id = id THEN <<[id |-> id, path |-> path]>> \o Tail(map)
    ELSE <<Head(map)>> \o MapSet(Tail(map), id, path)

RECURSIVE ScanFrom(_, _, _)
ScanFrom(files, i, map) ==
    IF i > Len(files) THEN map
    ELSE IF CacheId(files[i]) # NoId
         THEN ScanFrom(files, i + 1, MapSet(map, CacheId(files[i]), files[i].path))
         ELSE ScanFrom(files, i + 1, map)

scanLocalFiles(files, folderExists) ==
    IF folderExists THEN ScanFrom(files, 1, <<>>) ELSE <<>>

\* localFiles.get(id): the path, or "" for undefined
RECURSIVE MapGet(_, _)
MapGet(map, id) ==
    IF map = <<>> THEN ""
    ELSE IF Head(map).id = id THEN Head(map).path
    ELSE MapGet(Tail(map), id)

\* a diff that takes a record without stored timestamp for unchanged
IsStaleNoAbsentCheck(files, localFiles, entry) ==
    \/ MapGet(localFiles, entry.id) = ""
    \/ LET f == files[IndexOfPath(files, MapGet(localFiles, entry.id), 1)]
       IN  CacheEdited(f) # NoStamp /\ CacheEdited(f) # entry.last_edited_time

\* lines 144-157: is the entry stale
IsStale(files, localFiles, entry) ==
    \/ MapGet(localFiles, entry.id) = ""
    \/ LET f == files[IndexOfPath(files, MapGet(localFiles, entry.id), 1)]
       IN  CacheEdited(f) = NoStamp \/ CacheEdited(f) # entry.last_edited_time

\* a diff loop that does not count the rows it skips
RECURSIVE DiffFromUncounted(_, _, _, _, _)
DiffFromUncounted(files, localFiles, entries, i, acc) ==
    IF i > Len(entries) THEN acc
    ELSE DiffFromUncounted(files, localFiles, entries, i + 1,
             IF IsStale(files, localFiles, entries[i])
             THEN [acc EXCEPT !.processedIds = @ \cup {entries[i].id},
                              !.staleEntries = Append(@, entries[i])]
             ELSE [acc EXCEPT !.processedIds = @ \cup {entries[i].id}])

\* the diff loop, lines 138-158
RECURSIVE DiffFrom(_, _, _, _, _)
DiffFrom(files, localFiles, entries, i, acc) ==
    IF i > Len(entries) THEN acc
    ELSE DiffFrom(files, localFiles, entries, i + 1,
             IF IsStale(files, localFiles, entries[i])
             THEN [acc EXCEPT !.processedIds = @ \cup {entries[i].id},
                              !.staleEntries = Append(@, entries[i])]
             ELSE [acc EXCEPT !.processedIds = @ \cup {entries[i].id},
                              !.skippedCount = @ + 1])

\* a marking that does not look for the flag first
markAsDeletedAgain(f) ==
    IF f.fm /\ f.lf
    THEN [file |-> [f EXCEPT !.headerFlags = @ + 1], write |-> TRUE]
    ELSE [file |-> [f EXCEPT !.fm = TRUE, !.lf = TRUE, !.id = NoId, !.edited = NoStamp,
                             !.db = NoDb, !.headerFlags = 1],
          write |-> TRUE]

\* markAsDeleted (278-298) on the content of one file: the file after it, and
\* whether vault.modify was called
markAsDeleted(f) ==
    IF f.headerFlags + f.bodyFlags > 0
    THEN [file |-> f, write |-> FALSE]
    ELSE IF f.fm /\ f.lf
    THEN [file |-> [f EXCEPT !.headerFlags = @ + 1], write |-> TRUE]
    ELSE [file |-> [f EXCEPT !.fm = TRUE, !.lf = TRUE, !.id = NoId, !.edited = NoStamp,
                             !.db = NoDb, !.headerFlags = 1],
          write |-> TRUE]

\* a writer that moves a renamed row's record: it removes the row's old file
WriteFileMoving(files, entry) ==
    LET keep == SelectSeq(files, LAMBDA f : ~(CacheId(f) = entry.id
                                          /\ f.path # entry.title))
        k == IndexOfPath(keep, entry.title, 1)
    IN  IF k # 0
        THEN [files |-> [keep EXCEPT ![k] = File(entry.title, entry.id,
                                               entry.last_edited_time, ThisDb)],
              status |-> "updated"]
        ELSE [files |-> Append(keep, File(entry.title, entry.id,
                                          entry.last_edited_time, ThisDb)),
              status |-> "created"]

\* freezePage 19-24, 57-67: the file is named after the page's title; a file at
\* that path is overwritten (updated), else the file is created
WriteFile(files, entry) ==
    LET i == IndexOfPath(files, entry.title, 1)
    IN  IF i # 0
        THEN [files |-> [files EXCEPT ![i] = File(entry.title, entry.id,
                                               entry.last_edited_time, ThisDb)],
              status |-> "updated"]
        ELSE [files |-> Append(files, File(entry.title, entry.id,
                                           entry.last_edited_time, ThisDb)),
              status |-> "created"]

\* The Record Writer (writeDatabaseEntry of page-writer.ts) persists one
\* record and reports a create or an update; it names and places the file as
\* freezePage does.
writeDatabaseEntry(files, entry) == WriteFile(files, entry)

\* freezePage 24-32: the legacy writer skips a file at the path whose stored
\* timestamp equals the page's
FreezeSkips(files, entry) ==
    LET i == IndexOfPath(files, entry.title, 1)
    IN  /\ i # 0
        /\ CacheEdited(files[i]) # NoStamp
        /\ CacheEdited(files[i]) = entry.last_edited_time

\* freeze-modal.ts scanFrozenDatabases (132-157): the modal offers the folder
\* for a re-sync when a file of it carries the collection's id
scanFrozenDatabases(files) ==
    \E i \in 1 .. Len(files) : CacheDb(files[i]) = ThisDb

\* a check for an earlier sync that looks into the output folder only
scanForExistingSyncInFolder(files, elsewhere) ==
    \E i \in 1 .. Len(files) : CacheDb(files[i]) = ThisDb

\* scanForExistingSync (219-228): some markdown file of the vault carries the id
scanForExistingSync(files, elsewhere) ==
    elsewhere \/ \E i \in 1 .. Len(files) : CacheDb(files[i]) = ThisDb

\* the next entry of localFiles after place k whose id the query did not return
RECURSIVE NextOrphan(_, _, _)
NextOrphan(map, processed, k) ==
    IF k >= Len(map) THEN 0
    ELSE IF map[k + 1].id \notin processed THEN k + 1
    ELSE NextOrphan(map, processed, k + 1)

\* no vault write in this step
NoWrite == [by |-> "none", op |-> "none", flagged |-> FALSE, held |-> NoId,
            db |-> NoDb]

\* the local store as a run finds it: the files, the folder, the view file
Store == [vault |-> vault, folder |-> folder, base |-> base]
NoStore == [vault |-> <<>>, folder |-> FALSE, base |-> FALSE]

\* one onProgress call (types.ts ProgressPhase); the legacy callback
\* (current, total, title) is the phase "legacy"
Event(phase, current, total, staleCount) ==
    [phase |-> phase, current |-> current, total |-> total,
     staleCount |-> staleCount]

\* the locals of one run of freshDatabaseImport, refreshDatabase or
\* freezeDatabase, and its history: the error it threw, the store it started
\* from, the onProgress calls it made, the ids it called the writer for
IdleRun ==
    [kind |-> "none", pc |-> "idle", entries |-> <<>>, localFiles |-> <<>>,
     staleEntries |-> <<>>, skippedCount |-> 0, processedIds |-> {},
     created |-> 0, updated |-> 0, skipped |-> 0, deleted |-> 0, failed |-> 0,
     errors |-> <<>>, current |-> 0, total |-> 0, mark |-> 0, repeat |-> FALSE,
     threw |-> "none", before |-> NoStore, events |-> <<>>, calls |-> <<>>,
     bases |-> 0]

\* the entries the import loop walks: staleEntries in refreshDatabase (173),
\* entries in freshDatabaseImport (66) and freezeDatabase (421)
ToImport(r) == IF r.kind = "refresh" THEN r.staleEntries ELSE r.entries

\* a run that reconciles removals before its writes are through
PositionMarkingFirst(r) ==
    IF r.kind # "fresh" /\ NextOrphan(r.localFiles, r.processedIds, r.mark) # 0
    THEN "marking"
    ELSE IF r.current < Len(ToImport(r)) THEN "importing"
    ELSE "done"

\* where the run stands once the awaited call returned: in the import loop, in
\* the deletion loop (196-202, 451-456), or at its return
Position(r) ==
    IF r.current < Len(ToImport(r)) THEN "importing"
    ELSE IF r.kind # "fresh" /\ NextOrphan(r.localFiles, r.processedIds, r.mark) # 0
    THEN "marking"
    ELSE "done"

\* a run that announces "done" as soon as its import loop is through
ArriveDoneEarly(r) ==
    [r EXCEPT !.pc = Position(r),
              !.events = IF r.current = Len(ToImport(r)) /\ r.kind # "legacy"
                         THEN Append(@, Event("done", 0, 0, 0)) ELSE @]

\* the run after an awaited call returned: it goes on to its Position, and
\* calls onProgress({phase: "done"}) (89, 204) when that is its return
Arrive(r) ==
    [r EXCEPT !.pc = Position(r),
              !.events = IF Position(r) = "done" /\ r.kind # "legacy"
                         THEN Append(@, Event("done", 0, 0, 0)) ELSE @]

\* the errors a run can end with
SetupErrors == {"request failed", "linked database", "conflict"}
LaterErrors == {"query failed", "write failed"}

SyncInit ==
    /\ remote \in [RowIds -> RowStates]
    /\ \A id \in RowIds : remote[id].edited = 1 /\ remote[id].title \in InitTitles(id)
    /\ vault = <<>>
    /\ stray = FALSE
    /\ folder = FALSE
    /\ base = FALSE
    /\ run = IdleRun
    /\ wrote = NoWrite
    /\ nruns = 0
    /\ nchanges = 0
    /\ settled = FALSE

\* the state of the sync engine while another machine is explored
SyncParked ==
    /\ remote = [id \in RowIds |-> [present |-> FALSE, edited |-> 1, title |-> "A"]]
    /\ vault = <<>>
    /\ stray = FALSE
    /\ folder = FALSE
    /\ base = FALSE
    /\ run = IdleRun
    /\ wrote = NoWrite
    /\ nruns = 0
    /\ nchanges = 0
    /\ settled = FALSE

\* ---- the environment: the remote collection and the user ----

\* a row is edited or renamed: Notion raises its last_edited_time
RemoteEdit ==
    /\ SyncFrame
    /\ run.pc = "idle" /\ nchanges < MaxChanges
    /\ \E id \in RowIds, t \in Titles :
        /\ remote[id].present /\ remote[id].edited < MaxStamp
        /\ remote' = [remote EXCEPT ![id].edited = @ + 1, ![id].title = t]
    /\ nchanges' = nchanges + 1
    /\ settled' = FALSE
    /\ wrote' = NoWrite
    /\ UNCHANGED <<stray, vault, folder, base, run, nruns>>

\* a row is moved to the trash: the query no longer returns it
RemoteDelete ==
    /\ SyncFrame
    /\ run.pc = "idle" /\ nchanges < MaxChanges
    /\ \E id \in RowIds :
        /\ remote[id].present
        /\ remote' = [remote EXCEPT ![id].present = FALSE]
    /\ nchanges' = nchanges + 1
    /\ settled' = FALSE
    /\ wrote' = NoWrite
    /\ UNCHANGED <<stray, vault, folder, base, run, nruns>>

\* a row is added to the collection
RemoteAdd ==
    /\ SyncFrame
    /\ run.pc = "idle" /\ nchanges < MaxChanges
    /\ \E id \in RowIds :
        /\ ~remote[id].present
        /\ remote' = [remote EXCEPT ![id].present = TRUE]
    /\ nchanges' = nchanges + 1
    /\ settled' = FALSE
    /\ wrote' = NoWrite
    /\ UNCHANGED <<stray, vault, folder, base, run, nruns>>

\* the user puts a note of their own into the folder: it names a row in
\* notion-id and has no notion-last-edited and no collection marker
UserNote ==
    /\ SyncFrame
    /\ run.pc = "idle"
    /\ folder
    /\ IndexOfPath(vault, NotePath, 1) = 0
    /\ \E id \in NoteIds, kind \in NoteKinds :
        vault' = Append(vault, [File(NotePath, id, NoStamp, NoDb)
                                   EXCEPT !.lf = (kind # "crlf"),
                                          !.bodyFlags = IF kind = "quoting" THEN 1 ELSE 0])
    /\ settled' = FALSE
    /\ wrote' = NoWrite
    /\ UNCHANGED <<stray, remote, folder, base, run, nruns, nchanges>>

\* a record of the collection comes to lie in another folder of the vault: the
\* user copies one there, or has synced the collection there before
UserCopy ==
    /\ SyncFrame
    /\ run.pc = "idle"
    /\ ~stray
    /\ stray' = TRUE
    /\ settled' = FALSE
    /\ wrote' = NoWrite
    /\ UNCHANGED <<remote, vault, folder, base, run, nruns, nchanges>>

\* ---- generateBaseFile (300-342) ----

\* the schema of the collection: dataSource.properties, an object whose
\* entries come in insertion order, each a column [name, type]
MaxColumns == 2
ColumnNames == {"Name", "Status", "Due"}
ColumnTypes == {"title", "select"}
Schemas ==
    {sch \in UNION {[1 .. n -> [name : ColumnNames, type : ColumnTypes]]
                      : n \in 0 .. MaxColumns} :
        \A j, k \in 1 .. Len(sch) : sch[j].name = sch[k].name => j = k}

\* 310-314: the names of the columns that are not of type title, in order
RECURSIVE BaseOrder(_)
BaseOrder(schema) ==
    IF schema = <<>> THEN <<>>
    ELSE IF Head(schema).type = "title" THEN BaseOrder(Tail(schema))
    ELSE <<Head(schema).name>> \o BaseOrder(Tail(schema))

\* 317-334: the descriptor: the two filters and the order of the table view
BaseContent(schema) ==
    [inFolder |-> "folder", databaseId |-> ThisDb, order |-> BaseOrder(schema)]

\* 336-341: the descriptor files of the folder after generateBaseFile:
\* vault.modify of the file at basePath, or vault.create
generateBaseFile(baseFiles, schema) ==
    IF \E k \in 1 .. Len(baseFiles) : baseFiles[k].path = "T.base"
    THEN [k \in 1 .. Len(baseFiles) |->
             IF baseFiles[k].path = "T.base"
             THEN [path |-> "T.base", content |-> BaseContent(schema)]
             ELSE baseFiles[k]]
    ELSE Append(baseFiles, [path |-> "T.base", content |-> BaseContent(schema)])

\* ---- the runs ----

StartRun(kind) ==
    /\ run.pc = "idle" /\ nruns < MaxRuns
    /\ run' = [IdleRun EXCEPT !.kind = kind, !.pc = "retrieve",
                              !.repeat = (kind = "refresh" /\ settled),
                              !.before = Store,
                              !.events = IF kind = "refresh"
                                         THEN <<Event("querying", 0, 0, 0)>>
                                         ELSE <<>>]
    /\ nruns' = nruns + 1
    /\ wrote' = NoWrite
    /\ UNCHANGED <<stray, remote, vault, folder, base, nchanges, settled>>

\* main.ts openFreezeModal 54-56: executeFreshImport
StartFresh == SyncFrame /\ StartRun("fresh")

\* main.ts openFreezeModal 57-59: executeRefresh(db), db being a collection
\* that scanFrozenDatabases found by a file carrying its id
StartRefresh == SyncFrame /\ scanFrozenDatabases(vault) /\ StartRun("refresh")

\* the legacy main.ts calls freezeDatabase
StartLegacy == SyncFrame /\ StartRun("legacy")

\* databases.retrieve and dataSources.retrieve answered (16-48, 114-128,
\* 381-400); freshDatabaseImport throws when the collection is synced already
Retrieve ==
    /\ SyncFrame
    /\ run.pc = "retrieve"
    /\ run' = IF run.kind = "refresh" THEN [run EXCEPT !.pc = "query"]
               ELSE IF run.kind = "fresh" /\ scanForExistingSync(vault, stray)
               THEN [run EXCEPT !.pc = "thrown", !.threw = "conflict"]
               ELSE [run EXCEPT !.pc = "prepare"]
    /\ wrote' = NoWrite
    /\ UNCHANGED <<stray, remote, vault, folder, base, nruns, nchanges, settled>>

\* a setup that creates the folder before it has the collection and its schema
RetrieveThrowsAfterFolder ==
    /\ SyncFrame
    /\ run.pc = "retrieve"
    /\ folder' = TRUE
    /\ \E err \in {"request failed", "linked database"} :
         run' = [run EXCEPT !.pc = "thrown", !.threw = err]
    /\ wrote' = NoWrite
    /\ UNCHANGED <<stray, remote, vault, base, nruns, nchanges, settled>>

\* a retrieve fails for good, or the collection is a linked database (40-44,
\* 120-124: in freshDatabaseImport after the check for an earlier sync)
RetrieveThrows ==
    /\ SyncFrame
    /\ run.pc = "retrieve"
    /\ \E err \in {"request failed", "linked database"} :
         /\ err = "linked database" =>
               ~(run.kind = "fresh" /\ scanForExistingSync(vault, stray))
         /\ run' = [run EXCEPT !.pc = "thrown", !.threw = err]
    /\ wrote' = NoWrite
    /\ UNCHANGED <<stray, remote, vault, folder, base, nruns, nchanges, settled>>

\* ensureFolderExists and generateBaseFile (51-52, 403-406)
Prepare ==
    /\ SyncFrame
    /\ run.pc = "prepare"
    /\ folder' = TRUE
    /\ base' = TRUE
    /\ run' = [run EXCEPT !.pc = "query",
                           !.bases = @ + 1,
                           !.events = IF run.kind = "fresh"
                                      THEN Append(@, Event("querying", 0, 0, 0))
                                      ELSE @]
    /\ wrote' = [NoWrite EXCEPT !.by = "base",
                                 !.op = IF base THEN "modify" ELSE "create"]
    /\ UNCHANGED <<stray, remote, vault, nruns, nchanges, settled>>

\* ensureFolderExists or generateBaseFile rejects (vault.createFolder,
\* vault.create, vault.modify): nothing catches it; the folder is there when
\* it was generateBaseFile that rejected
PrepareThrows ==
    /\ SyncFrame
    /\ run.pc = "prepare"
    /\ folder' \in {folder, TRUE}
    /\ run' = [run EXCEPT !.pc = "thrown", !.threw = "write failed",
                           !.bases = IF folder' /\ run.kind # "legacy"
                                     THEN @ + 1 ELSE @]
    /\ wrote' = NoWrite
    /\ UNCHANGED <<stray, remote, vault, base, nruns, nchanges, settled>>

\* queryAllEntries returned; refreshDatabase runs its diff pass (134-161),
\* freezeDatabase scans the folder (412), before the next await
Query ==
    /\ SyncFrame
    /\ run.pc = "query"
    /\ LET entries == RowsFrom(1)
           localFiles == scanLocalFiles(vault, folder)
           got == [run EXCEPT !.entries = entries, !.total = Len(entries)]
       IN  run' =
             IF run.kind = "fresh" THEN Arrive(got)
             ELSE IF run.kind = "legacy"
             THEN Arrive([got EXCEPT !.localFiles = localFiles])
             ELSE LET diffed == DiffFrom(vault, localFiles, entries, 1,
                                         [got EXCEPT !.localFiles = localFiles])
                  IN  [diffed EXCEPT
                         !.pc = "detected",
                         !.events = @ \o <<Event("diffing", 0, 0, 0),
                                           Event("detected", 0, diffed.total,
                                                 Len(diffed.staleEntries))>>]
    /\ wrote' = NoWrite
    /\ UNCHANGED <<stray, remote, vault, folder, base, nruns, nchanges, settled>>

\* the query fails for good
QueryThrows ==
    /\ SyncFrame
    /\ run.pc = "query"
    /\ run' = [run EXCEPT !.pc = "thrown", !.threw = "query failed"]
    /\ wrote' = NoWrite
    /\ UNCHANGED <<stray, remote, vault, folder, base, nruns, nchanges, settled>>

\* refreshDatabase 164: generateBaseFile
GenerateBase ==
    /\ SyncFrame
    /\ run.pc = "detected"
    /\ base' = TRUE
    /\ run' = Arrive([run EXCEPT !.bases = @ + 1])
    /\ wrote' = [NoWrite EXCEPT !.by = "base",
                                 !.op = IF base THEN "modify" ELSE "create"]
    /\ UNCHANGED <<stray, remote, vault, folder, nruns, nchanges, settled>>

\* refreshDatabase 164: generateBaseFile rejects; nothing catches it
GenerateBaseThrows ==
    /\ SyncFrame
    /\ run.pc = "detected"
    /\ run' = [run EXCEPT !.pc = "thrown", !.threw = "write failed",
                           !.bases = @ + 1]
    /\ wrote' = NoWrite
    /\ UNCHANGED <<stray, remote, vault, folder, base, nruns, nchanges, settled>>

\* an import loop that reports its progress against the number of fetched rows
ImportedOfTotal(r, n, status) ==
    LET counted ==
          [r EXCEPT !.current = n,
                    !.events = Append(@, Event(IF r.kind = "legacy" THEN "legacy"
                                               ELSE "importing", n, r.total, 0)),
                    !.calls = Append(@, ToImport(r)[n].id),
                    !.processedIds = IF r.kind = "legacy"
                                     THEN @ \cup {ToImport(r)[n].id} ELSE @,
                    !.created = IF status = "created" THEN @ + 1 ELSE @,
                    !.updated = IF status = "updated" THEN @ + 1 ELSE @,
                    !.skipped = IF status = "skipped" THEN @ + 1 ELSE @,
                    !.failed = IF status = "failed" THEN @ + 1 ELSE @,
                    !.errors = IF status = "failed"
                               THEN Append(@, ToImport(r)[n].id) ELSE @]
    IN  Arrive(counted)

\* an import loop without its try/catch: the writer's error ends the run
ImportedOrThrown(r, n, status) ==
    IF status = "failed"
    THEN [r EXCEPT !.current = n, !.pc = "thrown", !.threw = "write failed"]
    ELSE Arrive([r EXCEPT !.current = n,
                          !.calls = Append(@, ToImport(r)[n].id),
                          !.created = IF status = "created" THEN @ + 1 ELSE @,
                          !.updated = IF status = "updated" THEN @ + 1 ELSE @,
                          !.skipped = IF status = "skipped" THEN @ + 1 ELSE @])

\* the run after one pass of its import loop over the entry at place n
Imported(r, n, status) ==
    LET counted ==
          [r EXCEPT !.current = n,
                    !.events = Append(@, IF r.kind = "legacy"
                                         THEN Event("legacy", n, r.total, 0)
                                         ELSE Event("importing", n,
                                                    Len(ToImport(r)), 0)),
                    !.calls = Append(@, ToImport(r)[n].id),
                    !.processedIds = IF r.kind = "legacy"
                                     THEN @ \cup {ToImport(r)[n].id} ELSE @,
                    !.created = IF status = "created" THEN @ + 1 ELSE @,
                    !.updated = IF status = "updated" THEN @ + 1 ELSE @,
                    !.skipped = IF status = "skipped" THEN @ + 1 ELSE @,
                    !.failed = IF status = "failed" THEN @ + 1 ELSE @,
                    !.errors = IF status = "failed"
                               THEN Append(@, ToImport(r)[n].id) ELSE @]
    IN  Arrive(counted)

\* one pass of the import loop of freshDatabaseImport (66-80) and
\* refreshDatabase (173-187): writeDatabaseEntry writes the record
WriteEntry ==
    /\ SyncFrame
    /\ run.pc = "importing" /\ run.kind \in {"fresh", "refresh"}
    /\ LET n == run.current + 1
           w == writeDatabaseEntry(vault, ToImport(run)[n])
       IN  /\ vault' = w.files
           /\ run' = Imported(run, n, w.status)
           /\ wrote' = [NoWrite EXCEPT !.by = "writer",
                           !.op = IF w.status = "created" THEN "create" ELSE "modify"]
    /\ UNCHANGED <<stray, remote, folder, base, nruns, nchanges, settled>>

\* one pass of the import loop of freezeDatabase (421-449): freezePage skips
\* the record or writes it
FreezeEntry ==
    /\ SyncFrame
    /\ run.pc = "importing" /\ run.kind = "legacy"
    /\ LET n == run.current + 1
           w == WriteFile(vault, ToImport(run)[n])
       IN  IF FreezeSkips(vault, ToImport(run)[n])
           THEN /\ vault' = vault
                /\ run' = Imported(run, n, "skipped")
                /\ wrote' = NoWrite
           ELSE /\ vault' = w.files
                /\ run' = Imported(run, n, w.status)
                /\ wrote' = [NoWrite EXCEPT !.by = "writer",
                                !.op = IF w.status = "created" THEN "create"
                                       ELSE "modify"]
    /\ UNCHANGED <<stray, remote, folder, base, nruns, nchanges, settled>>

\* a catch block that counts the failure and records no message
EntryFailsUnrecorded ==
    /\ SyncFrame
    /\ run.pc = "importing"
    /\ run' = [Imported(run, run.current + 1, "failed") EXCEPT !.errors = run.errors]
    /\ wrote' = NoWrite
    /\ UNCHANGED <<stray, remote, vault, folder, base, nruns, nchanges, settled>>

\* the writer throws: the loop counts the failure and goes on (81-86, 188-193,
\* 444-449)
EntryFails ==
    /\ SyncFrame
    /\ run.pc = "importing"
    /\ run' = Imported(run, run.current + 1, "failed")
    /\ wrote' = NoWrite
    /\ UNCHANGED <<stray, remote, vault, folder, base, nruns, nchanges, settled>>

\* one pass of the deletion loop that finds an id the query did not return
\* (196-201, 452-456): markAsDeleted, then deleted++
MarkDeleted ==
    /\ SyncFrame
    /\ run.pc = "marking"
    /\ LET k == NextOrphan(run.localFiles, run.processedIds, run.mark)
           i == IndexOfPath(vault, run.localFiles[k].path, 1)
           m == markAsDeleted(vault[i])
           marked == [run EXCEPT !.mark = k, !.deleted = @ + 1]
       IN  /\ vault' = [vault EXCEPT ![i] = m.file]
           /\ run' = Arrive(marked)
           /\ wrote' = [by |-> "mark",
                        op |-> IF m.write THEN "modify" ELSE "none",
                        flagged |-> vault[i].headerFlags > 0,
                        held |-> CacheId(vault[i]),
                        db |-> CacheDb(vault[i])]
    /\ UNCHANGED <<stray, remote, folder, base, nruns, nchanges, settled>>

\* markAsDeleted rejects (vault.read, vault.modify): nothing catches it
MarkThrows ==
    /\ SyncFrame
    /\ run.pc = "marking"
    /\ run' = [run EXCEPT !.pc = "thrown", !.threw = "write failed"]
    /\ wrote' = NoWrite
    /\ UNCHANGED <<stray, remote, vault, folder, base, nruns, nchanges, settled>>

\* the run returned its result or threw; the next command may start
Return ==
    /\ SyncFrame
    /\ run.pc \in {"done", "thrown"}
    /\ settled' = (run.kind = "refresh" /\ run.pc = "done" /\ run.failed = 0)
    /\ run' = IdleRun
    /\ wrote' = NoWrite
    /\ UNCHANGED <<stray, remote, vault, folder, base, nruns, nchanges>>

SyncNext ==
    \/ RemoteEdit \/ RemoteDelete \/ RemoteAdd \/ UserNote \/ UserCopy
    \/ StartFresh \/ StartRefresh \/ StartLegacy
    \/ Retrieve \/ RetrieveThrows \/ Prepare \/ PrepareThrows
    \/ Query \/ QueryThrows \/ GenerateBase \/ GenerateBaseThrows
    \/ WriteEntry \/ FreezeEntry \/ EntryFails
    \/ MarkDeleted \/ MarkThrows \/ Return

-----------------------------------------------------------------------------
(* block-converter.ts.  A string is the sequence of its pieces: the        *)
(* literals of the template strings, the texts and ids of the input, and   *)
(* the line break NL.  Concatenation is \o; split("\n") and join("\n")     *)
(* cut and glue at NL.                                                      *)

NL == "\n"

\* Array.prototype.join: the strings of parts with sep between them
RECURSIVE Join(_, _)
Join(parts, sep) ==
    IF parts = <<>> THEN <<>>
    ELSE IF Len(parts) = 1 THEN parts[1]
    ELSE parts[1] \o sep \o Join(Tail(parts), sep)

\* String.prototype.split("\n"): the lines of str; one empty line for ""
RECURSIVE SplitFrom(_, _, _)
SplitFrom(str, i, line) ==
    IF i > Len(str) THEN <<line>>
    ELSE IF str[i] = NL THEN <<line>> \o SplitFrom(str, i + 1, <<>>)
    ELSE SplitFrom(str, i + 1, Append(line, str[i]))

Split(str) == SplitFrom(str, 1, <<>>)

\* "    ".repeat(n)
RECURSIVE Repeat(_, _)
Repeat(piece, n) == IF n = 0 THEN <<>> ELSE <<piece>> \o Repeat(piece, n - 1)

\* .split("\n").map((line) => `> ${line}`).join("\n") (118-121, 130-133, 148-151)
Blockquote(str) ==
    Join([k \in 1 .. Len(Split(str)) |-> <<"> ">> \o Split(str)[k]], <<NL>>)

\* ---- rich text (300-354) ----

\* item.annotations: the names of the annotations that are set; "highlight"
\* stands for a color ending in _background
Annotations == {"code", "bold", "italic", "strikethrough", "underline", "highlight"}

\* one RichTextItemResponse: content is the string the item carries (the
\* text content, the expression, the mentioned id, the plain text); kind is
\* the mention's type, or "link" for a text with a link
Item(type, content, kind, annotations) ==
    [type |-> type, content |-> content, kind |-> kind, annotations |-> annotations]

\* convertMention (334-354): page and database mentions become
\* [[notion-id: id]], a date its start (and end), a user @name, a link
\* preview a markdown link, anything else the plain text
convertMention(item) ==
    IF item.type # "mention" THEN item.content
    ELSE CASE item.kind = "page" -> <<"[[notion-id: ">> \o item.content \o <<"]]">>
           [] item.kind = "database" -> <<"[[notion-id: ">> \o item.content \o <<"]]">>
           [] item.kind = "date" -> item.content
           [] item.kind = "user" -> <<"@">> \o item.content
           [] item.kind = "link_preview" -> <<"[">> \o item.content \o <<"](", "url", ")">>
           [] OTHER -> item.content

\* the piece that stands for the character U+0060 (grave accent)
Backtick == "BACKTICK"

\* a wrapper around text when the annotation is set
Wrap(text, on, open, close) == IF on THEN <<open>> \o text \o <<close>> ELSE text

\* annotations applied with italic inside bold
convertRichTextItemItalicFirst(item) ==
    LET a == item.annotations
        t0 == IF item.type = "equation" THEN <<"$">> \o item.content \o <<"$">>
              ELSE IF item.type = "mention" THEN convertMention(item)
              ELSE IF item.kind = "link"
              THEN <<"[">> \o item.content \o <<"](", "url", ")">>
              ELSE item.content
        t1 == Wrap(t0, "code" \in a, Backtick, Backtick)
        t2 == Wrap(t1, "italic" \in a, "*", "*")
        t3 == Wrap(t2, "bold" \in a, "**", "**")
        t4 == Wrap(t3, "strikethrough" \in a, "~~", "~~")
        t5 == Wrap(t4, "underline" \in a, "<u>", "</u>")
    IN  Wrap(t5, "highlight" \in a, "==", "==")

\* convertRichTextItem (304-332)
convertRichTextItem(item) ==
    LET a == item.annotations
        t0 == IF item.type = "equation" THEN <<"$">> \o item.content \o <<"$">>
              ELSE IF item.type = "mention" THEN convertMention(item)
              ELSE IF item.kind = "link"
              THEN <<"[">> \o item.content \o <<"](", "url", ")">>
              ELSE item.content
        t1 == Wrap(t0, "code" \in a, Backtick, Backtick)
        t2 == Wrap(t1, "bold" \in a, "**", "**")
        t3 == Wrap(t2, "italic" \in a, "*", "*")
        t4 == Wrap(t3, "strikethrough" \in a, "~~", "~~")
        t5 == Wrap(t4, "underline" \in a, "<u>", "</u>")
    IN  Wrap(t5, "highlight" \in a, "==", "==")

\* convertRichText (300-302): richTexts.map(convertRichTextItem).join("")
convertRichText(richTexts) ==
    Join([k \in 1 .. Len(richTexts) |-> convertRichTextItem(richTexts[k])], <<>>)

\* ---- blocks (13-272, 356-389) ----

\* one BlockObjectResponse with what the converter reads of it: rich_text is
\* the block's rich text (its caption for media blocks), target the id or
\* title it names, link the type of a link_to_page, cells the cells of a
\* table_row; children is what fetchAllChildren returns for the block, and
\* fails says that this fetch rejects
Block(type, rich_text, children) ==
    [type |-> type, rich_text |-> rich_text, is_toggleable |-> FALSE,
     link |-> "none", target |-> "x", checked |-> FALSE, cells |-> <<>>,
     has_children |-> children # <<>>, children |-> children, fails |-> FALSE]

\* block types whose case renders rich text and then maybeConvertChildren
MediaTypes == {"bookmark", "embed", "video", "file", "pdf", "audio"}

RECURSIVE LinesFrom(_, _, _, _)
RECURSIVE convertBlock(_, _, _)
RECURSIVE convertColumnParts(_, _, _)

\* convertBlocksToMarkdown (13-37)
convertBlocksToMarkdown(blocks, indentLevel) ==
    Join(LinesFrom(blocks, indentLevel, 1, 1), <<NL>>)

\* children converted one level below the context they are given
maybeConvertChildrenDeeper(block, indentLevel) ==
    IF ~block.has_children THEN <<>>
    ELSE LET childMd == convertBlocksToMarkdown(block.children, indentLevel + 1)
         IN  IF childMd = <<>> THEN <<>> ELSE <<NL>> \o childMd

\* maybeConvertChildren (262-272)
maybeConvertChildren(block, indentLevel) ==
    IF ~block.has_children THEN <<>>
    ELSE LET childMd == convertBlocksToMarkdown(block.children, indentLevel)
         IN  IF childMd = <<>> THEN <<>> ELSE <<NL>> \o childMd

\* convertTable (356-374): lines, before lines.join("\n")
RECURSIVE TableLinesFrom(_, _)
TableLinesFrom(rows, i) ==
    IF i > Len(rows) THEN <<>>
    ELSE IF rows[i].type # "table_row" THEN TableLinesFrom(rows, i + 1)
    ELSE LET cells == [k \in 1 .. Len(rows[i].cells) |->
                          convertRichText(rows[i].cells[k])]
             line == <<"| ">> \o Join(cells, <<" | ">>) \o <<" |">>
             sep == <<"| ">> \o Join([k \in 1 .. Len(cells) |-> <<"---">>], <<" | ">>)
                      \o <<" |">>
         IN  (IF i = 1 THEN <<line, sep>> ELSE <<line>>)
                \o TableLinesFrom(rows, i + 1)

\* a table that rules off every row
RECURSIVE TableLinesRuled(_, _)
TableLinesRuled(rows, i) ==
    IF i > Len(rows) THEN <<>>
    ELSE IF rows[i].type # "table_row" THEN TableLinesRuled(rows, i + 1)
    ELSE LET cells == [k \in 1 .. Len(rows[i].cells) |->
                          convertRichText(rows[i].cells[k])]
             line == <<"| ">> \o Join(cells, <<" | ">>) \o <<" |">>
             sep == <<"| ">> \o Join([k \in 1 .. Len(cells) |-> <<"---">>], <<" | ">>)
                      \o <<" |">>
         IN  <<line, sep>> \o TableLinesRuled(rows, i + 1)

convertTableRuled(block) ==
    IF Len(block.children) = 0 THEN <<>> ELSE TableLinesRuled(block.children, 1)

\* convertTable (356-374): the lines it joins
convertTableLines(block) ==
    IF Len(block.children) = 0 THEN <<>> ELSE TableLinesFrom(block.children, 1)

convertTable(block) == Join(convertTableLines(block), <<NL>>)

\* convertColumnList (376-389)
convertColumnParts(columns, indentLevel, i) ==
    IF i > Len(columns) THEN <<>>
    ELSE IF columns[i].type # "column"
    THEN convertColumnParts(columns, indentLevel, i + 1)
    ELSE LET md == convertBlocksToMarkdown(columns[i].children, indentLevel)
         IN  (IF md # <<>> THEN <<md>> ELSE <<>>)
                \o convertColumnParts(columns, indentLevel, i + 1)

convertColumnList(block, indentLevel) ==
    Join(convertColumnParts(block.children, indentLevel, 1), <<NL, NL, "---", NL, NL>>)

\* emojiToCalloutType (391-418), the emoji by their names
emojiToCalloutType(icon) ==
    CASE icon \in {"bulb"} -> "tip"
      [] icon \in {"warning"} -> "warning"
      [] icon \in {"exclamation", "fire", "rotating_light", "skull"} -> "danger"
      [] icon \in {"question"} -> "question"
      [] icon \in {"memo"} -> "note"
      [] icon \in {"check_mark"} -> "success"
      [] icon \in {"pushpin"} -> "important"
      [] icon \in {"bug"} -> "bug"
      [] icon \in {"book", "speech_balloon", "speaking_head"} -> "quote"
      [] icon \in {"clipboard"} -> "abstract"
      [] icon \in {"dart"} -> "example"
      [] OTHER -> "info"

\* the piece that stands for a code fence, three U+0060
Fence == "FENCE"

\* `[${caption}](${url})` or the url (172-218)
CaptionedUrl(caption) ==
    IF caption # <<>> THEN <<"[">> \o caption \o <<"](", "url", ")">> ELSE <<"url">>

\* convertBlock (39-260)
convertBlock(block, indentLevel, numberedIndex) ==
    LET indent == Repeat("    ", indentLevel)
        text == convertRichText(block.rich_text)
        children == maybeConvertChildren(block, indentLevel)
        deeper == maybeConvertChildren(block, indentLevel + 1)
        hashes == CASE block.type = "heading_1" -> "# "
                    [] block.type = "heading_2" -> "## "
                    [] OTHER -> "### "
    IN  CASE block.type = "paragraph" -> text \o children
          [] block.type \in {"heading_1", "heading_2", "heading_3"} ->
                IF block.is_toggleable
                THEN <<"> ", "[!note]+ ", hashes>> \o text \o children
                ELSE <<hashes>> \o text
          [] block.type = "bulleted_list_item" -> indent \o <<"- ">> \o text \o deeper
          [] block.type = "numbered_list_item" ->
                indent \o <<ToString(numberedIndex), ". ">> \o text \o deeper
          [] block.type = "to_do" ->
                indent \o <<"- [", IF block.checked THEN "x" ELSE " ", "] ">>
                       \o text \o deeper
          [] block.type = "code" ->
                <<Fence>> \o (IF block.target = "plain text" THEN <<>> ELSE <<block.target>>)
                          \o <<NL>> \o text \o <<NL, Fence>>
          [] block.type = "quote" -> Blockquote(text \o children)
          [] block.type = "callout" ->
                <<"> ", "[!", emojiToCalloutType(block.target), "]", NL>>
                    \o Blockquote(text \o children)
          [] block.type = "equation" -> <<"$$", NL, block.target, NL, "$$">>
          [] block.type = "divider" -> <<"---">>
          [] block.type = "toggle" ->
                <<"> ", "[!note]+ ">> \o text \o <<NL>> \o Blockquote(children)
          [] block.type = "child_page" -> <<"[[", block.target, "]]">>
          [] block.type = "child_database" ->
                <<"<!-- child database: ", block.target, " -->">>
          [] block.type = "image" ->
                IF text # <<>> THEN <<"![">> \o text \o <<"](", "url", ")">>
                ELSE <<"![image](", "url", ")">>
          [] block.type \in MediaTypes -> CaptionedUrl(text)
          [] block.type = "table" -> convertTable(block)
          [] block.type = "column_list" -> convertColumnList(block, indentLevel)
          [] block.type = "column" -> <<>>
          [] block.type = "link_to_page" ->
                IF block.link = "page_id"
                THEN <<"[[notion-id: ", block.target, "]]">>
                ELSE IF block.link = "database_id"
                THEN <<"<!-- linked database: ", block.target, " -->">>
                ELSE <<>>
          [] block.type = "synced_block" -> children
          [] block.type \in {"table_of_contents", "breadcrumb"} -> <<>>
          [] OTHER -> <<>>

\* a loop that lets the count run on over blocks of other types
RECURSIVE LinesFromRunningOn(_, _, _, _)
LinesFromRunningOn(blocks, indentLevel, i, numberedIndex) ==
    IF i > Len(blocks) THEN <<>>
    ELSE LET result == convertBlock(blocks[i], indentLevel, numberedIndex)
             next == IF blocks[i].type = "numbered_list_item"
                     THEN numberedIndex + 1 ELSE numberedIndex
         IN  <<result>> \o LinesFromRunningOn(blocks, indentLevel, i + 1, next)

\* convertBlocksToMarkdown 18-34: lines, from iteration i on with the count
\* numberedIndex of the iterations before
LinesFrom(blocks, indentLevel, i, numberedIndex) ==
    IF i > Len(blocks) THEN <<>>
    ELSE LET index == IF blocks[i].type # "numbered_list_item"
                      THEN 1 ELSE numberedIndex
             result == convertBlock(blocks[i], indentLevel, index)
             next == IF blocks[i].type = "numbered_list_item"
                     THEN index + 1 ELSE index
         IN  <<result>> \o LinesFrom(blocks, indentLevel, i + 1, next)

\* the block types whose case awaits maybeConvertChildren
WithChildren == {"paragraph", "bulleted_list_item", "numbered_list_item", "to_do",
                 "quote", "callout", "toggle", "synced_block"}

\* whether the conversion rejects: some fetchAllChildren it awaits does
RECURSIVE BlocksThrow(_)

\* a converter that rejects a block of a type it has no case for
BlockThrowsOnUnknown(block) ==
    CASE \/ block.type \in WithChildren
         \/ block.type \in {"heading_1", "heading_2", "heading_3"} /\ block.is_toggleable
            -> block.has_children /\ (block.fails \/ BlocksThrow(block.children))
      [] block.type = "table" -> block.fails
      [] block.type = "column_list" ->
            \/ block.fails
            \/ \E k \in 1 .. Len(block.children) :
                  /\ block.children[k].type = "column"
                  /\ block.children[k].fails \/ BlocksThrow(block.children[k].children)
      [] block.type = "template" -> TRUE
      [] OTHER -> FALSE

BlockThrows(block) ==
    CASE \/ block.type \in WithChildren
         \/ block.type \in {"heading_1", "heading_2", "heading_3"} /\ block.is_toggleable
            -> block.has_children /\ (block.fails \/ BlocksThrow(block.children))
      [] block.type = "table" -> block.fails
      [] block.type = "column_list" ->
            \/ block.fails
            \/ \E k \in 1 .. Len(block.children) :
                  /\ block.children[k].type = "column"
                  /\ block.children[k].fails \/ BlocksThrow(block.children[k].children)
      [] OTHER -> FALSE

BlocksThrow(blocks) == \E k \in 1 .. Len(blocks) : BlockThrows(blocks[k])

\* ---- the conversions explored ----

MaxItems == 2
MaxBlocks == 4
MaxChildren == 2
MaxTableRows == 3
MaxCells == 2

\* the sequences over S of the lengths lens
SeqsOf(S, lens) == UNION {[1 .. n -> S] : n \in lens}

\* a text item "a" under every set of annotations, and one item of every
\* other kind, plain and annotated
AnnotatedItems == {Item("text", <<"a">>, "none", a) : a \in SUBSET Annotations}
KindItems ==
    {Item(t[1], t[2], t[3], a) :
        t \in {<<"text", <<"b">>, "link">>, <<"text", <<"a", NL, "b">>, "none">>,
               <<"equation", <<"e">>, "none">>, <<"mention", <<"p1">>, "page">>,
               <<"mention", <<"d1">>, "database">>, <<"mention", <<"u">>, "user">>,
               <<"mention", <<"2026">>, "date">>,
               <<"mention", <<"l">>, "link_preview">>},
        a \in {{}, {"code", "bold"}}}
\* rich texts of up to MaxItems items: plain, bold or mention items with any
\* one item in any place
PlainItems == {Item("text", <<"a">>, "none", {}), Item("text", <<"b">>, "none", {"bold"}),
               Item("mention", <<"p1">>, "page", {})}
RichTexts ==
    {<<>>} \cup
    UNION {{[items EXCEPT ![k] = item] :
               k \in 1 .. Len(items), item \in AnnotatedItems \cup KindItems} :
           items \in SeqsOf(PlainItems, 1 .. MaxItems)}

\* the rich texts of the blocks: none, one line, two lines, a page mention
OneLine == <<Item("text", <<"a">>, "none", {})>>
TwoLines == <<Item("text", <<"a", NL, "b">>, "none", {})>>
PageMention == <<Item("mention", <<"p1">>, "page", {})>>
DatabaseMention == <<Item("mention", <<"d1">>, "database", {})>>

\* a block of a type the converter has no case for
Unsupported == Block("template", OneLine, <<>>)

\* link_to_page blocks
LinkTo(link, target) ==
    [Block("link_to_page", <<>>, <<>>) EXCEPT !.link = link, !.target = target]

\* a block whose children cannot be fetched
Failing(block) == [block EXCEPT !.has_children = TRUE, !.fails = TRUE]

\* the blocks of the flat sequences
ListBlocks ==
    {Block("numbered_list_item", OneLine, <<>>),
     Block("numbered_list_item", OneLine,
           <<Block("numbered_list_item", OneLine, <<>>),
             Block("numbered_list_item", OneLine, <<>>)>>),
     Block("bulleted_list_item", OneLine, <<>>),
     Block("paragraph", PageMention, <<>>),
     Block("paragraph", DatabaseMention, <<>>),
     Failing(Block("paragraph", OneLine, <<>>)),
     Unsupported,
     LinkTo("page_id", "p1"), LinkTo("database_id", "d1")}

\* the children of the containers
Kids ==
    {Block("paragraph", OneLine, <<>>),
     Block("paragraph", TwoLines, <<>>),
     Block("numbered_list_item", OneLine, <<>>),
     Block("bulleted_list_item", OneLine, <<Block("paragraph", OneLine, <<>>)>>),
     Block("quote", OneLine, <<Block("paragraph", OneLine, <<>>)>>),
     Block("toggle", OneLine, <<Block("paragraph", OneLine, <<>>)>>),
     Unsupported}

\* quotes, callouts, toggles and toggleable headings over the children
Containers ==
    {[Block(type, text, kids) EXCEPT !.is_toggleable = TRUE, !.target = "bulb"] :
        type \in {"quote", "callout", "toggle", "heading_1", "heading_2"},
        text \in {<<>>, OneLine, TwoLines},
        kids \in SeqsOf(Kids, 0 .. MaxChildren)}

\* trees three blocks deep: list items and blocks of other types over list
\* items, the root with up to MaxNested children
MaxNested == 2
Leaves ==
    {Block("bulleted_list_item", OneLine, <<>>),
     [Block("to_do", OneLine, <<>>) EXCEPT !.checked = TRUE]}
Branches ==
    {Block(type, OneLine, kids) :
        type \in {"bulleted_list_item", "numbered_list_item", "paragraph",
                  "synced_block"},
        kids \in SeqsOf(Leaves, 0 .. 1)}
Trees ==
    {Block(type, OneLine, kids) :
        type \in {"bulleted_list_item", "to_do", "paragraph", "quote"},
        kids \in SeqsOf(Branches, 1 .. MaxNested)}

\* tables: rows of one to MaxCells cells
TableRows ==
    {[Block("table_row", <<>>, <<>>) EXCEPT !.cells = cells] :
        cells \in SeqsOf({<<>>, OneLine}, 1 .. MaxCells)}
Tables ==
    {[Block("table", <<>>, rows) EXCEPT !.has_children = TRUE] :
        rows \in SeqsOf(TableRows, 0 .. MaxTableRows)}

Job(kind, blocks, items) == [kind |-> kind, blocks |-> blocks, items |-> items]

NoOut == [threw |-> FALSE, text |-> <<>>, lines |-> <<>>]

ConvInit ==
    /\ \/ \E n \in 0 .. MaxBlocks : \E blocks \in [1 .. n -> ListBlocks] :
              cvJob = Job("blocks", blocks, <<>>)
       \/ \E b \in Containers : cvJob = Job("blocks", <<b>>, <<>>)
       \/ \E tree \in Trees, leaf \in Leaves :
              cvJob = Job("blocks", <<tree, leaf>>, <<>>)
       \/ \E t \in Tables : cvJob = Job("table", <<t>>, <<>>)
       \/ \E items \in RichTexts : cvJob = Job("rich", <<>>, items)
    /\ cvPc = "start"
    /\ cvOut = NoOut

\* the state of the converter while another machine is explored
ConvParked ==
    /\ cvJob = Job("rich", <<>>, <<>>)
    /\ cvPc = "returned"
    /\ cvOut = NoOut

\* convertBlocksToMarkdown(blocks, { client, indentLevel: 0 }) returns or rejects
ConvertBlocks ==
    /\ ConvFrame
    /\ cvPc = "start" /\ cvJob.kind = "blocks"
    /\ cvOut' = IF BlocksThrow(cvJob.blocks)
                THEN [NoOut EXCEPT !.threw = TRUE]
                ELSE [threw |-> FALSE,
                      text |-> convertBlocksToMarkdown(cvJob.blocks, 0),
                      lines |-> LinesFrom(cvJob.blocks, 0, 1, 1)]
    /\ cvPc' = "returned"
    /\ UNCHANGED cvJob

\* convertBlock of a table block: convertTable
ConvertTable ==
    /\ ConvFrame
    /\ cvPc = "start" /\ cvJob.kind = "table"
    /\ cvOut' = [threw |-> FALSE,
                 text |-> convertBlock(cvJob.blocks[1], 0, 1),
                 lines |-> convertTableLines(cvJob.blocks[1])]
    /\ cvPc' = "returned"
    /\ UNCHANGED cvJob

\* convertRichText of the rich text of a block
ConvertRichText ==
    /\ ConvFrame
    /\ cvPc = "start" /\ cvJob.kind = "rich"
    /\ cvOut' = [threw |-> FALSE,
                 text |-> convertRichText(cvJob.items),
                 lines |-> [k \in 1 .. Len(cvJob.items) |->
                               convertRichTextItem(cvJob.items[k])]]
    /\ cvPc' = "returned"
    /\ UNCHANGED cvJob

ConvNext == ConvertBlocks \/ ConvertTable \/ ConvertRichText

-----------------------------------------------------------------------------
(* Two fresh imports of one collection.  The modal's callback starts        *)
(* executeFreshImport with `void` and holds no lock, so a second import may  *)
(* start while the first is at any of its awaits; a step below is the code   *)
(* of one import between two awaits.                                         *)

Importers == {1, 2}
OutputFolders == {"out1", "out2"}
MaxRaceRows == 2

\* the page object of row id: rows after the first share a title
RaceEntry(id) == [id |-> id, last_edited_time |-> 1,
                  title |-> IF id = 1 THEN "A" ELSE "B"]

NoImport == [pc |-> "idle", out |-> "out1", current |-> 0, total |-> 0,
             created |-> 0, updated |-> 0, failed |-> 0, threw |-> "none",
             early |-> FALSE]

\* what an import has written so far
Written(p) == imp[p].created + imp[p].updated

\* the import is between its start and its end
Running(p) == imp[p].pc \notin {"idle", "done", "thrown"}

RaceInit ==
    /\ imp = [p \in Importers |-> NoImport]
    /\ rvault = [f \in OutputFolders |-> <<>>]
    /\ rfolders = {}
    /\ rrows \in 0 .. MaxRaceRows

\* the state of the two imports while another machine is explored
RaceParked ==
    /\ imp = [p \in Importers |-> NoImport]
    /\ rvault = [f \in OutputFolders |-> <<>>]
    /\ rfolders = {}
    /\ rrows = 0

\* the modal's callback: executeFreshImport up to the await of
\* databases.retrieve (22); early records that the other import is running
\* and has written no record yet
StartImport(p, out) ==
    /\ RaceFrame
    /\ imp[p].pc = "idle"
    /\ imp' = [imp EXCEPT ![p] =
                 [NoImport EXCEPT !.pc = "retrieve", !.out = out,
                                  !.early = \E q \in Importers \ {p} :
                                                Running(q) /\ Written(q) = 0]]
    /\ UNCHANGED <<rvault, rfolders, rrows>>

\* databases.retrieve has answered: the check for an earlier sync (29-34),
\* then the await of dataSources.retrieve (46)
RaceRetrieve(p) ==
    /\ RaceFrame
    /\ imp[p].pc = "retrieve"
    /\ imp' = [imp EXCEPT ![p] =
                 IF \E f \in OutputFolders : scanForExistingSync(rvault[f], FALSE)
                 THEN [@ EXCEPT !.pc = "thrown", !.threw = "conflict"]
                 ELSE [@ EXCEPT !.pc = "dataSource"]]
    /\ UNCHANGED <<rvault, rfolders, rrows>>

\* dataSources.retrieve has answered: ensureFolderExists and generateBaseFile
\* (51-52), then the await of the query (56)
RaceDataSource(p) ==
    /\ RaceFrame
    /\ imp[p].pc = "dataSource"
    /\ rfolders' = rfolders \cup {imp[p].out}
    /\ imp' = [imp EXCEPT ![p] = [@ EXCEPT !.pc = "query"]]
    /\ UNCHANGED <<rvault, rrows>>

\* the query has answered (56-66): the loop starts, or ends at once
RaceQuery(p) ==
    /\ RaceFrame
    /\ imp[p].pc = "query"
    /\ imp' = [imp EXCEPT ![p] =
                 [@ EXCEPT !.total = rrows,
                           !.pc = IF rrows = 0 THEN "done" ELSE "importing"]]
    /\ UNCHANGED <<rvault, rfolders, rrows>>

\* one pass of the loop whose writeDatabaseEntry resolves (66-80)
RaceWriteEntry(p) ==
    /\ RaceFrame
    /\ imp[p].pc = "importing"
    /\ LET n == imp[p].current + 1
           result == writeDatabaseEntry(rvault[imp[p].out], RaceEntry(n))
       IN  /\ rvault' = [rvault EXCEPT ![imp[p].out] = result.files]
           /\ imp' = [imp EXCEPT ![p] =
                        [@ EXCEPT !.current = n,
                                  !.created = IF result.status = "created"
                                              THEN @ + 1 ELSE @,
                                  !.updated = IF result.status = "created"
                                              THEN @ ELSE @ + 1,
                                  !.pc = IF n = imp[p].total THEN "done"
                                         ELSE "importing"]]
    /\ UNCHANGED <<rfolders, rrows>>

\* one pass of the loop whose writeDatabaseEntry rejects (81-86)
RaceEntryFails(p) ==
    /\ RaceFrame
    /\ imp[p].pc = "importing"
    /\ LET n == imp[p].current + 1
       IN  imp' = [imp EXCEPT ![p] =
                     [@ EXCEPT !.current = n, !.failed = @ + 1,
                               !.pc = IF n = imp[p].total THEN "done"
                                      ELSE "importing"]]
    /\ UNCHANGED <<rvault, rfolders, rrows>>

\* a request rejects: freshDatabaseImport rejects, and executeFreshImport
\* shows the error (part_002 94-99)
RaceRequestThrows(p) ==
    /\ RaceFrame
    /\ imp[p].pc \in {"retrieve", "dataSource", "query"}
    /\ imp' = [imp EXCEPT ![p] = [@ EXCEPT !.pc = "thrown",
                                            !.threw = "request failed"]]
    /\ UNCHANGED <<rvault, rfolders, rrows>>

RaceNext ==
    \E p \in Importers :
        \/ \E out \in OutputFolders : StartImport(p, out)
        \/ RaceRetrieve(p)
        \/ RaceDataSource(p)
        \/ RaceQuery(p)
        \/ RaceWriteEntry(p)
        \/ RaceEntryFails(p)
        \/ RaceRequestThrows(p)

InitSync == ClientParked /\ FetchParked /\ ConvParked /\ RaceParked /\ SyncInit
Spec == InitSync /\ [][SyncNext]_vars

InitClient == FetchParked /\ SyncParked /\ ConvParked /\ RaceParked /\ ClientInit
SpecClient == InitClient /\ [][ClientNext]_vars

\* the event loop runs every continuation that is ready, every timer fires
\* once it has expired, time passes, and every attempt of the wrapped
\* operation ends
ClientFairness ==
    /\ WF_vars(Tick)
    /\ \A p \in Callers :
          /\ WF_vars(ThrottleEnter(p))
          /\ WF_vars(ThrottleWake(p))
          /\ WF_vars(BackoffWake(p))
          /\ WF_vars(OpSucceeds(p) \/ OpFails(p))
SpecClientFair == SpecClient /\ ClientFairness

InitFetch == ClientParked /\ SyncParked /\ ConvParked /\ RaceParked /\ FetchInit
SpecFetch == InitFetch /\ [][FetchNext]_vars

InitConvert == ClientParked /\ FetchParked /\ SyncParked /\ RaceParked /\ ConvInit
SpecConvert == InitConvert /\ [][ConvNext]_vars

InitRace == ClientParked /\ FetchParked /\ SyncParked /\ ConvParked /\ RaceInit
SpecRace == InitRace /\ [][RaceNext]_vars

-----------------------------------------------------------------------------
(* Claims about notion-client.ts, checked under SpecClient.                *)

Transient == {429, 500, 502, 503, 504}
Caught == caught.by # "none"

\* C5: any two successive starts of a wrapped operation, by whichever
\* callers, are at least MIN_REQUEST_INTERVAL_MS (340 ms) apart.
C5_MinSpacing == lastGap = NoGap \/ lastGap >= 340

\* C6: one notionRequest call invokes the wrapped operation at most 5 times,
\* invokes it again only after a failure with status 429, 500, 502, 503 or
\* 504, and has run throttle before every one of its attempts.
C6_BoundedAttempts ==
    /\ \A p \in Callers :
          /\ req[p].calls <= 5
          /\ req[p].calls <= req[p].backoffs + 1
          /\ req[p].pc = "inflight" => req[p].throttles = req[p].calls
          /\ req[p].calls <= req[p].throttles
    /\ (Caught /\ caught.retry) => caught.err.status \in Transient

C6_Witness ==
    \E p \in Callers : req[p].pc = "inflight" /\ req[p].calls = 5

\* C7: a transient failure with a Retry-After hint of h seconds, when a retry
\* is still allowed, is followed by a delay of exactly h * 1000 ms.
C7_HintHonoredExactly ==
    (Caught /\ caught.err.status \in Transient /\ caught.attempt < 4
       /\ caught.err.hint # NoHint)
    => (caught.retry /\ caught.delay = caught.err.hint * 1000)

\* C8: without a retry hint the delay before retry k (k = 0 first) is within
\* [0.75, 1.25] times 1000 * 2^k ms and never above 30000 ms.
C8_BackoffWindow ==
    (Caught /\ caught.retry /\ caught.err.hint = NoHint)
    => /\ 4 * caught.delay >= 3 * 1000 * (2 ^ caught.attempt)
       /\ 4 * caught.delay <= 5 * 1000 * (2 ^ caught.attempt)
       /\ caught.delay <= 30000

C8_Witness ==
    /\ Caught /\ caught.retry /\ caught.err.hint = NoHint
    /\ caught.attempt = 3 /\ caught.delay < 8000

\* C9: a failure with a non-transient status is rethrown as it is, with no
\* further attempt and no backoff after it (one attempt in all when it is the
\* first); a fifth transient failure is rethrown as it is; a call whose last
\* attempt failed never returns a value.
C9_FailurePropagates ==
    /\ (Caught /\ caught.err.status \notin Transient)
       => /\ ~caught.retry
          /\ caught.thrown = caught.err
          /\ req[caught.by].pc = "threw"
          /\ req[caught.by].calls = caught.attempt + 1
          /\ req[caught.by].backoffs = caught.attempt
    /\ (Caught /\ caught.attempt >= 4)
       => /\ ~caught.retry
          /\ caught.thrown = caught.err
          /\ req[caught.by].pc = "threw"
          /\ req[caught.by].calls = 5
    /\ \A p \in Callers : req[p].pc = "returned" => ~req[p].failed
    /\ \A p \in Callers : req[p].pc = "threw" => req[p].failed

C9_Witness ==
    /\ Caught /\ caught.attempt = 4 /\ caught.err.status = 503
    /\ caught.thrown = caught.err /\ req[caught.by].pc = "threw"

-----------------------------------------------------------------------------
(* Claims about the cursor loops, checked under SpecFetch.                 *)

RECURSIVE AcceptedOf(_, _)
AcceptedOf(f, page) ==
    IF page = <<>> THEN <<>>
    ELSE (IF (f = "queryAllEntries" /\ Head(page).object = "page"
                 /\ Head(page).hasProperties)
             \/ (f = "fetchAllChildren" /\ Head(page).hasType)
          THEN <<Head(page)>> ELSE <<>>) \o AcceptedOf(f, Tail(page))

RECURSIVE ConcatAccepted(_, _, _)
ConcatAccepted(f, pages, n) ==
    IF n = 0 THEN <<>>
    ELSE ConcatAccepted(f, pages, n - 1) \o AcceptedOf(f, pages[n])

\* C10: the loop returns exactly the accepted items of every page of the
\* chain, in page order and within-page order; the first request carries no
\* cursor, each later one the previous response's next cursor, and the loop
\* asks for pages until a response has no further cursor.
C10_PaginationComplete ==
    /\ fpc = "returned" =>
          /\ fetched = ConcatAccepted(fetcher, chain, Len(chain))
          /\ requests = [i \in 1 .. Len(chain) |-> i - 1]
    /\ fpc = "loop" =>
          /\ fetched = ConcatAccepted(fetcher, chain, Len(requests))
          /\ requests = [i \in 1 .. Len(requests) |-> i - 1]
          /\ cursor = Len(requests)
          /\ Len(requests) < Len(chain)

C10_Witness ==
    /\ fpc = "returned" /\ Len(chain) = 3 /\ Len(fetched) = 3
    /\ chain[2] = <<>> /\ Len(chain[3]) = 2
    /\ \E i \in 1 .. 2 : ~Accepted(fetcher, chain[3][i])

\* ---- claims about the sync engine (Spec) ----

\* the places of the files of the folder that carry the id in notion-id
LocalRecords(files, id) == {i \in 1 .. Len(files) : CacheId(files[i]) = id}

\* the local record of a row: the last file of the folder listing that carries
\* the row's id
LocalRecord(files, id) ==
    files[CHOOSE i \in LocalRecords(files, id) :
            \A j \in LocalRecords(files, id) : j <= i]

\* the row has no local record, or the record's stored timestamp is absent or
\* differs from the row's
MustRefresh(files, entry) ==
    \/ LocalRecords(files, entry.id) = {}
    \/ LocalRecord(files, entry.id).edited = NoStamp
    \/ LocalRecord(files, entry.id).edited # entry.last_edited_time

InStale(r, entry) == \E k \in 1 .. Len(r.staleEntries) : r.staleEntries[k] = entry

\* C1: the diff pass of refreshDatabase puts a fetched row in the stale set if
\* and only if the folder holds no record with the row's id, or the record's
\* stored notion-last-edited is absent or differs from the row's
\* last_edited_time; every other fetched row is counted as skipped.
C1_DiffCorrect ==
    [][(run.kind = "refresh" /\ run.pc = "query" /\ run'.pc = "detected") =>
         /\ run'.entries = RowsFrom(1)
         /\ \A n \in 1 .. Len(run'.entries) :
              InStale(run', run'.entries[n]) <=> MustRefresh(vault, run'.entries[n])
         /\ run'.skippedCount =
              Cardinality({n \in 1 .. Len(run'.entries) :
                             ~MustRefresh(vault, run'.entries[n])})
         /\ Len(run'.staleEntries) + run'.skippedCount = run'.total]_vars

\* a diff pass found one row unchanged and one row stale whose record holds
\* an older timestamp
C1_Witness ==
    /\ run.kind = "refresh" /\ run.pc = "detected"
    /\ run.skippedCount >= 1
    /\ \E k \in 1 .. Len(run.staleEntries) :
         /\ LocalRecords(vault, run.staleEntries[k].id) # {}
         /\ LocalRecord(vault, run.staleEntries[k].id).edited # NoStamp

\* C2: a refresh that follows a refresh, with no remote change between the
\* two, reports created = 0, updated = 0, deleted = 0 and skipped = total.
C2_Idempotent ==
    (run.kind = "refresh" /\ run.pc = "done" /\ run.repeat) =>
        /\ run.created = 0
        /\ run.updated = 0
        /\ run.deleted = 0
        /\ run.skippedCount = run.total

\* C3: no file ever holds the removal flag more than once, and marking a
\* record that is flagged already writes nothing.
C3_FlaggedOnce ==
    /\ \A i \in 1 .. Len(vault) : vault[i].headerFlags + vault[i].bodyFlags <= 1
    /\ (wrote.by = "mark" /\ wrote.flagged) => wrote.op = "none"

\* a later refresh came to mark a record that an earlier one had flagged
C3_Witness ==
    /\ wrote.by = "mark" /\ wrote.flagged
    /\ run.kind = "refresh" /\ run.deleted >= 1

\* C4: no step of a fresh import, a refresh or a legacy sync removes a file:
\* every file, the folder and the view file are still there after the step.
C4_NothingDeleted ==
    [][/\ \A i \in 1 .. Len(vault) :
            \E j \in 1 .. Len(vault') : vault'[j].path = vault[i].path
       /\ folder => folder'
       /\ base => base']_vars

\* a refresh rewrote one record and marked another, and both files are there
C4_Witness ==
    /\ run.kind = "refresh" /\ run.pc = "done"
    /\ run.deleted >= 1 /\ run.created + run.updated >= 1
    /\ Len(vault) >= 2
    /\ \E i \in 1 .. Len(vault) : vault[i].headerFlags = 1

\* C11: a failing row write is caught: the step that fails counts the failure
\* and records its message, leaves every file as it is, and the run goes on;
\* the import loop is left only when every row has been processed.
C11_FailureIsolated ==
    [][/\ (run.pc = "importing" /\ run'.failed = run.failed + 1) =>
             /\ run'.pc \in {"importing", "marking", "done"}
             /\ run'.errors = Append(run.errors, ToImport(run)[run.current + 1].id)
             /\ run'.current = run.current + 1
             /\ run'.created = run.created /\ run'.updated = run.updated
             /\ vault' = vault /\ folder' = folder /\ base' = base
       /\ (run.pc = "importing" /\ run'.pc # "importing") =>
             /\ run'.pc \in {"marking", "done"}
             /\ run'.current = Len(ToImport(run'))
             /\ Len(run'.calls) = Len(ToImport(run'))]_vars

\* a run whose first row failed wrote a later row and returned
C11_Witness ==
    /\ run.pc = "done"
    /\ Len(ToImport(run)) >= 2
    /\ run.errors = <<ToImport(run)[1].id>>
    /\ run.created + run.updated >= 1
    /\ \E i \in 1 .. Len(vault) : vault[i].id = ToImport(run)[2].id

\* C12: once the setup is through, freshDatabaseImport and refreshDatabase
\* never throw: a run that throws threw a setup error.
C12_OnlySetupFatal ==
    (run.kind \in {"fresh", "refresh"} /\ run.pc = "thrown") =>
        run.threw \in SetupErrors

\* C13: a run that ends with a setup error has written no row and has left
\* the files, the folder and the view file as it found them.
C13_SetupAbortsClean ==
    (run.pc = "thrown" /\ run.threw \in SetupErrors) =>
        /\ Store = run.before
        /\ run.calls = <<>> /\ run.current = 0
        /\ run.entries = <<>>

\* a fresh import ended with the conflict error over a folder that holds files
C13_Witness ==
    /\ run.kind = "fresh" /\ run.pc = "thrown" /\ run.threw = "conflict"
    /\ Len(vault) >= 1

\* the entries of seq that are in the stale set, in the order of seq
StaleOf(r) == SelectSeq(r.entries, LAMBDA e : InStale(r, e))

\* C14: the writer is called for the rows in the order the query returned
\* them, one after the other, and no record is marked removed before the
\* writer has been called for the last row.
C14_WritesInOrderThenMarks ==
    /\ Len(run.calls) <= Len(ToImport(run))
    /\ \A k \in 1 .. Len(run.calls) : run.calls[k] = ToImport(run)[k].id
    /\ run.pc \in {"detected", "importing", "marking", "done"} =>
          /\ run.entries = RowsFrom(1)
          /\ run.kind = "refresh" => run.staleEntries = StaleOf(run)
    /\ (run.pc = "marking" \/ wrote.by = "mark" \/ run.deleted > 0) =>
          Len(run.calls) = Len(ToImport(run))

\* a run wrote a row and then marked a record removed
C14_Witness ==
    /\ wrote.by = "mark" /\ wrote.op = "modify"
    /\ Len(run.calls) >= 1
    /\ run.created + run.updated >= 1

\* the ids of the rows the query returned to the run
FetchedIds(r) == {r.entries[k].id : k \in 1 .. Len(r.entries)}

\* C15: a file that holds a row the query returned, when the reconciliation
\* comes to it, is not marked removed.
C15_PresentNeverFlagged ==
    wrote.by = "mark" => wrote.held \notin FetchedIds(run)

\* the rows the diff pass of the run classified unchanged
UnchangedIds(r) == {e.id : e \in {r.entries[k] : k \in 1 .. Len(r.entries)}} \
                   {r.staleEntries[k].id : k \in 1 .. Len(r.staleEntries)}

CarriedBefore(r) ==
    \/ stray
    \/ \E i \in 1 .. Len(r.before.vault) :
          r.before.vault[i].fm /\ r.before.vault[i].db = ThisDb

\* C17: a fresh import whose collection was retrieved ends with the conflict
\* error if and only if a markdown file of the vault carries the collection's
\* id; when it does, it has fetched and written nothing.
C17_ConflictIffCarried ==
    (run.kind = "fresh" /\ run.pc \notin {"idle", "retrieve"}
         /\ run.threw # "request failed") =>
        /\ run.threw = "conflict" <=> CarriedBefore(run)
        /\ run.threw = "conflict" =>
              /\ run.pc = "thrown"
              /\ run.entries = <<>> /\ run.calls = <<>>
              /\ Store = run.before

\* a fresh import into an empty folder ended with the conflict error because
\* of a record lying elsewhere in the vault
C17_Witness ==
    /\ run.kind = "fresh" /\ run.pc = "thrown" /\ run.threw = "conflict"
    /\ stray /\ vault = <<>>

\* n "importing" events counting 1 .. n of total
RECURSIVE Importing(_, _)
Importing(n, total) ==
    IF n = 0 THEN <<>>
    ELSE Append(Importing(n - 1, total), Event("importing", n, total, 0))

\* C18: a refresh that completes has emitted querying, diffing, detected, one
\* importing event per stale row and done, in this order; a fresh import that
\* completes querying, one importing event per row and done; done is emitted
\* last, once, and never by a run that throws.
C18_ProgressOrder ==
    /\ (run.kind = "refresh" /\ run.pc = "done") =>
          \E d \in {run.events[3]} :
              /\ d.phase = "detected"
              /\ run.events = <<Event("querying", 0, 0, 0), Event("diffing", 0, 0, 0), d>>
                                \o Importing(Len(run.staleEntries), Len(run.staleEntries))
                                \o <<Event("done", 0, 0, 0)>>
    /\ (run.kind = "fresh" /\ run.pc = "done") =>
          run.events = <<Event("querying", 0, 0, 0)>>
                          \o Importing(Len(run.entries), Len(run.entries))
                          \o <<Event("done", 0, 0, 0)>>
    /\ \A k \in 1 .. Len(run.events) :
          run.events[k].phase = "done" => k = Len(run.events) /\ run.pc = "done"

\* a refresh completed after it wrote a stale row and marked a record
C18_Witness ==
    /\ run.kind = "refresh" /\ run.pc = "done"
    /\ Len(run.staleEntries) >= 1 /\ run.deleted >= 1

\* the importing events of a run, in the order they were emitted
ImportingEvents(r) == SelectSeq(r.events, LAMBDA e : e.phase = "importing")

\* C19: the importing events of a run count current = 1, 2, ... against
\* total = the number of stale rows (refresh) or of fetched rows (fresh
\* import), so 1 <= current <= total; the detected event carries the size of
\* the stale set and the number of fetched rows.
C19_ProgressCounts ==
    /\ run.kind \in {"fresh", "refresh"} =>
          LET total == IF run.kind = "refresh" THEN Len(run.staleEntries)
                       ELSE Len(run.entries)
          IN  /\ Len(ImportingEvents(run)) <= total
              /\ run.pc = "done" => Len(ImportingEvents(run)) = total
              /\ \A k \in 1 .. Len(ImportingEvents(run)) :
                    /\ ImportingEvents(run)[k].current = k
                    /\ ImportingEvents(run)[k].total = total
    /\ \A k \in 1 .. Len(run.events) :
          run.events[k].phase = "detected" =>
              /\ run.events[k].staleCount = Len(run.staleEntries)
              /\ run.events[k].total = Len(run.entries)

\* a refresh that found one of two rows stale has reported on writing it
C19_Witness ==
    /\ run.kind = "refresh"
    /\ Len(run.entries) = 2 /\ Len(run.staleEntries) = 1
    /\ Len(ImportingEvents(run)) = 1

ScannedPaths(r) == {r.localFiles[k].path : k \in 1 .. Len(r.localFiles)}

\* C21: the local records a refresh considers are exactly the files that
\* carry this collection's id as their collection marker: right after the
\* scan, a file is in the scan's map iff its notion-database-id is this
\* collection's; and a file marked removed carried this collection's id.
C21_ScanByMarker ==
    /\ (run.kind = "refresh" /\ run.pc = "detected") =>
          \A i \in 1 .. Len(vault) :
              vault[i].path \in ScannedPaths(run) <=> CacheDb(vault[i]) = ThisDb
    /\ (run.kind = "refresh" /\ wrote.by = "mark") => wrote.db = ThisDb

\* C22: a file the engine wrote with stored remote id X keeps X as its stored
\* remote id in every later step of the engine (writes and removal marking).
C22_StoredIdStable ==
    [][run.pc # "idle" =>
          \A i \in 1 .. Len(vault) :
              (CacheDb(vault[i]) = ThisDb /\ CacheId(vault[i]) # NoId) =>
                  CacheId(vault'[i]) = CacheId(vault[i])]_vars

\* C23: every fresh import and refresh that passed its setup has run
\* generateBaseFile exactly once; the descriptor's order is the schema's
\* columns in schema order without the title columns; and generating twice
\* from one schema leaves one descriptor file with the content of the first.
C23_BaseOncePerRun ==
    /\ (/\ run.kind \in {"fresh", "refresh"}
        /\ run.pc \in {"done", "thrown"}
        /\ run.threw \notin SetupErrors) => run.bases = 1
    /\ run.bases <= 1
    /\ wrote.by = "base" =>
          \A schema \in Schemas :
              LET order == BaseOrder(schema)
                  once == generateBaseFile(<<>>, schema)
                  twice == generateBaseFile(once, schema)
                  At(name) == CHOOSE k \in 1 .. Len(schema) : schema[k].name = name
              IN  /\ \A k \in 1 .. Len(schema) :
                        schema[k].type # "title" <=>
                            \E j \in 1 .. Len(order) : order[j] = schema[k].name
                  /\ \A j, k \in 1 .. Len(order) : j < k => At(order[j]) < At(order[k])
                  /\ Len(once) = 1 /\ twice = once
                  /\ once[1].content.order = order

-----------------------------------------------------------------------------
(* Claims about block-converter.ts, checked under SpecConvert.             *)

\* a conversion of a block sequence has returned its text
Converted == cvPc = "returned" /\ cvJob.kind = "blocks" /\ ~cvOut.threw

\* the number the claim gives the k-th block when it is a numbered item
RECURSIVE NumberOf(_, _)
NumberOf(blocks, k) ==
    IF k = 1 \/ blocks[k - 1].type # "numbered_list_item" THEN 1
    ELSE NumberOf(blocks, k - 1) + 1

\* the pieces that follow an indent piece in a string
AfterIndent(str) ==
    SelectSeq([k \in 1 .. Len(str) |->
                  IF k > 1 /\ str[k - 1] = "    " THEN str[k] ELSE "    "],
              LAMBDA piece : piece # "    ")

\* C24: a numbered item renders 1 when it is first or follows a block that
\* is not a numbered item, else one more than the item before it; the children
\* of an item count from 1 on their own and leave the parent's count alone.
C24_NumberedReset ==
    Converted =>
        \A k \in 1 .. Len(cvJob.blocks) :
            cvJob.blocks[k].type = "numbered_list_item" =>
                /\ cvOut.lines[k][1] = ToString(NumberOf(cvJob.blocks, k))
                /\ cvJob.blocks[k].has_children =>
                      AfterIndent(cvOut.lines[k]) =
                          [j \in 1 .. Len(cvJob.blocks[k].children) |-> ToString(j)]

\* numbered, numbered (with two numbered children), bulleted, numbered is
\* rendered 1, 2, bullet, 1
C24_Witness ==
    /\ Converted
    /\ Len(cvJob.blocks) = 4
    /\ [k \in 1 .. 4 |-> cvJob.blocks[k].type] =
          <<"numbered_list_item", "numbered_list_item", "bulleted_list_item",
            "numbered_list_item">>
    /\ cvJob.blocks[2].has_children
    /\ [k \in 1 .. 4 |-> cvOut.lines[k][1]] = <<"1", "2", "- ", "1">>

\* a line made of --- cells only
IsSeparator(line) ==
    /\ \E k \in 1 .. Len(line) : line[k] = "---"
    /\ \A k \in 1 .. Len(line) : line[k] \in {"| ", "---", " | ", " |"}

\* the number of --- cells of a line
Dashes(line) == Len(SelectSeq(line, LAMBDA piece : piece = "---"))

\* the cells of a row between the bars
RowLine(row) ==
    <<"| ">> \o Join([k \in 1 .. Len(row.cells) |-> convertRichText(row.cells[k])],
                     <<" | ">>) \o <<" |">>

\* C25: a table with rows renders its first row, then one separator line
\* with as many --- cells as the first row has cells, then the other rows in
\* order, and no other separator line; a table without rows renders nothing.
C25_TableShape ==
    (cvPc = "returned" /\ cvJob.kind = "table") =>
        LET rows == cvJob.blocks[1].children
            lines == cvOut.lines
        IN  /\ cvOut.text = Join(lines, <<NL>>)
            /\ rows = <<>> => cvOut.text = <<>>
            /\ rows # <<>> =>
                  /\ Len(lines) = Len(rows) + 1
                  /\ lines[1] = RowLine(rows[1])
                  /\ IsSeparator(lines[2]) /\ Dashes(lines[2]) = Len(rows[1].cells)
                  /\ \A k \in 2 .. Len(rows) : lines[k + 1] = RowLine(rows[k])
                  /\ \A k \in 1 .. Len(lines) : IsSeparator(lines[k]) => k = 2

\* a table of two rows of two cells has been rendered
C25_Witness ==
    /\ cvPc = "returned" /\ cvJob.kind = "table"
    /\ Len(cvJob.blocks[1].children) = 2
    /\ \A k \in 1 .. 2 : Len(cvJob.blocks[1].children[k].cells) = 2
    /\ Len(cvOut.lines) = 3
    /\ cvOut.lines[2] = <<"| ", "---", " | ", "---", " |">>

\* the wrappers from the outermost to the innermost
WrapOrder == <<"highlight", "underline", "strikethrough", "italic", "bold", "code">>
Opener(a) ==
    CASE a = "highlight" -> "==" [] a = "underline" -> "<u>"
      [] a = "strikethrough" -> "~~" [] a = "italic" -> "*"
      [] a = "bold" -> "**" [] OTHER -> Backtick
Closer(a) == IF a = "underline" THEN "</u>" ELSE Opener(a)

\* the active annotations of an item, from the outermost to the innermost
ActiveOf(item) == SelectSeq(WrapOrder, LAMBDA a : a \in item.annotations)

\* C26: an item renders as the openers of its active annotations from
\* highlight (outermost) over underline, strikethrough, italic, bold to code
\* (innermost), its text, and the closers in the reverse order: one wrapper
\* for each active annotation and none for the others; the items of a rich
\* text are concatenated in their order.
C26_AnnotationNesting ==
    (cvPc = "returned" /\ cvJob.kind = "rich") =>
        /\ cvOut.text = Join(cvOut.lines, <<>>)
        /\ \A k \in 1 .. Len(cvJob.items) :
              LET item == cvJob.items[k]
                  act == ActiveOf(item)
                  n == Len(act)
                  line == cvOut.lines[k]
              IN  /\ Len(line) >= 2 * n
                  /\ \A j \in 1 .. n :
                        /\ line[j] = Opener(act[j])
                        /\ line[Len(line) + 1 - j] = Closer(act[j])
                  /\ SubSeq(line, n + 1, Len(line) - n) =
                        convertRichTextItem([item EXCEPT !.annotations = {}])

\* an item with all six annotations, after another item, has been rendered
C26_Witness ==
    /\ cvPc = "returned" /\ cvJob.kind = "rich"
    /\ Len(cvJob.items) = 2
    /\ cvJob.items[2].annotations = Annotations
    /\ cvOut.lines[2] = <<"==", "<u>", "~~", "*", "**", Backtick, "a",
                          Backtick, "**", "*", "~~", "</u>", "==">>

\* every line of a string starts with the blockquote marker
AllQuoted(str) ==
    \A k \in 1 .. Len(Split(str)) :
        Split(str)[k] # <<>> /\ Split(str)[k][1] = "> "

\* C27: every line of the rendering of a quote, a callout or a toggle starts
\* with the blockquote marker, whatever its text and its children.
C27_EveryLineQuoted ==
    (Converted /\ Len(cvJob.blocks) = 1
       /\ cvJob.blocks[1].type \in {"quote", "callout", "toggle"}) =>
        AllQuoted(cvOut.text)

\* C28: every line of the rendering of a toggleable heading with children,
\* the lines of the children included, carries the blockquote marker of the
\* foldable note.
C28_HeadingWrapsChildren ==
    (Converted /\ Len(cvJob.blocks) = 1
       /\ cvJob.blocks[1].type \in {"heading_1", "heading_2", "heading_3"}
       /\ cvJob.blocks[1].is_toggleable /\ cvJob.blocks[1].has_children) =>
        AllQuoted(cvOut.text)

\* the internal reference token for an id
Reference(id) == <<"[[notion-id: ", id, "]]">>

\* C29: a link to a page, a link to a collection, and a mention of a page or
\* of a collection each render as [[notion-id: <target id>]].
C29_ReferenceTokens ==
    /\ Converted =>
          \A k \in 1 .. Len(cvJob.blocks) :
              LET block == cvJob.blocks[k]
              IN  /\ (block.type = "link_to_page"
                        /\ block.link \in {"page_id", "database_id"}) =>
                          cvOut.lines[k] = Reference(block.target)
                  /\ (block.type = "paragraph" /\ block.rich_text # <<>>
                        /\ block.rich_text[1].type = "mention"
                        /\ block.rich_text[1].kind \in {"page", "database"}) =>
                          cvOut.lines[k] = Reference(block.rich_text[1].content[1])
    /\ (cvPc = "returned" /\ cvJob.kind = "rich") =>
          \A k \in 1 .. Len(cvJob.items) :
              (/\ cvJob.items[k].type = "mention"
               /\ cvJob.items[k].kind \in {"page", "database"}
               /\ cvJob.items[k].annotations = {}) =>
                  cvOut.lines[k] = Reference(cvJob.items[k].content[1])

\* the blocks of a sequence that the converter has a case for
Supported(blocks) == SelectSeq(blocks, LAMBDA b : b.type # "template")

\* C30: a block of an unrecognized type renders as the empty text and does
\* not make the conversion reject: the conversion rejects only when it would
\* without that block, and every other block renders as it does on its own
\* under its number.
C30_UnknownIsEmpty ==
    (cvPc = "returned" /\ cvJob.kind = "blocks") =>
        /\ cvOut.threw <=> BlocksThrow(Supported(cvJob.blocks))
        /\ ~cvOut.threw =>
              /\ Len(cvOut.lines) = Len(cvJob.blocks)
              /\ cvOut.text = Join(cvOut.lines, <<NL>>)
              /\ \A k \in 1 .. Len(cvJob.blocks) :
                    IF cvJob.blocks[k].type = "template"
                    THEN cvOut.lines[k] = <<>>
                    ELSE cvOut.lines[k] =
                            convertBlock(cvJob.blocks[k], 0, NumberOf(cvJob.blocks, k))

\* numbered, unrecognized, numbered has been rendered 1, empty, 1
C30_Witness ==
    /\ Converted
    /\ [k \in 1 .. Len(cvJob.blocks) |-> cvJob.blocks[k].type] =
          <<"numbered_list_item", "template", "numbered_list_item">>
    /\ cvOut.lines[2] = <<>>
    /\ cvOut.lines[1][1] = "1" /\ cvOut.lines[3][1] = "1"
    /\ cvOut.text # <<>>

-----------------------------------------------------------------------------
(* Further claims about database-freezer.ts, checked under Spec.           *)

\* C31: when a refresh has completed, every file that was a local record of a
\* row the query did not return has the removal flag in its front matter.
C31_AbsentFlagged ==
    (run.kind = "refresh" /\ run.pc = "done") =>
        \A i \in 1 .. Len(run.before.vault) :
            (/\ CacheId(run.before.vault[i]) # NoId
             /\ CacheId(run.before.vault[i]) \notin FetchedIds(run)) =>
                vault[i].headerFlags > 0

\* C32: marking a record removed changes the flag and nothing else: the file
\* keeps its path, stored id, stored timestamp, collection id, the rest of
\* its header and its body, and no other file changes.
C32_MarkingFrame ==
    [][wrote'.by = "mark" =>
          /\ Len(vault') = Len(vault)
          /\ \A i \in 1 .. Len(vault) :
                \/ vault'[i] = vault[i]
                \/ vault'[i] = [vault[i] EXCEPT !.headerFlags = 1]]_vars

\* C35: the counts of a returned result add up: in a refresh created + updated
\* + failed is the number of stale rows and with skipped the total; in a
\* fresh import created + updated + failed is the total and skipped and
\* deleted are 0; in a legacy sync created + updated + skipped + failed is the
\* number of fetched rows.
C35_CountsAddUp ==
    run.pc = "done" =>
        /\ run.total = Len(run.entries)
        /\ run.kind = "refresh" =>
              /\ run.created + run.updated + run.failed = Len(run.staleEntries)
              /\ run.created + run.updated + run.skippedCount + run.failed = run.total
        /\ run.kind = "fresh" =>
              /\ run.created + run.updated + run.failed = run.total
              /\ run.skipped = 0 /\ run.skippedCount = 0 /\ run.deleted = 0
        /\ run.kind = "legacy" =>
              run.created + run.updated + run.skipped + run.failed = Len(run.entries)

\* a refresh has returned after it skipped a row, wrote a row and failed on one
C35_Witness ==
    /\ run.kind = "refresh" /\ run.pc = "done"
    /\ run.skippedCount >= 1 /\ run.failed + run.created + run.updated >= 1

\* the places of the ids of a sequence of ids in the run's calls
InCallOrder(ids, calls) ==
    \E at \in [1 .. Len(ids) -> 1 .. Len(calls)] :
        /\ \A k \in 1 .. Len(ids) : calls[at[k]] = ids[k]
        /\ \A j, k \in 1 .. Len(ids) : j < k => at[j] < at[k]

\* C36: at every point of a run there are as many recorded messages as
\* failed rows; the messages name rows the loop processed, one for each row
\* that was not written or skipped, in the order of processing.
C36_ErrorsMatchFailed ==
    /\ Len(run.errors) = run.failed
    /\ run.failed <= Len(run.calls)
    /\ InCallOrder(run.errors, run.calls)
    /\ run.created + run.updated + run.skipped + Len(run.errors) = Len(run.calls)

\* a run has returned with a failure on its second row only
C36_Witness ==
    /\ run.pc = "done" /\ Len(run.calls) = 2
    /\ run.errors = <<run.calls[2]>> /\ run.failed = 1

\* C37: when a refresh has completed, no local record of a row the query
\* returned carries the removal flag.
C37_PresentUnflagged ==
    (run.kind = "refresh" /\ run.pc = "done") =>
        \A i \in 1 .. Len(vault) :
            (CacheId(vault[i]) # NoId /\ CacheId(vault[i]) \in FetchedIds(run)) =>
                vault[i].headerFlags = 0

-----------------------------------------------------------------------------
(* A further claim about notion-client.ts, checked under SpecClientFair.   *)

\* C34: a call of notionRequest makes at most 5 attempts and at most 4
\* backoff waits, and, every attempt ending, it returns or throws.
C34_CallTerminates ==
    /\ [](\A p \in Callers : req[p].calls <= 5 /\ req[p].backoffs <= 4)
    /\ \A p \in Callers :
          (req[p].pc \notin {"idle", "returned", "threw"})
              ~> (req[p].pc \in {"returned", "threw"})

\* a call has thrown after its fifth attempt and four backoff waits
C34_Witness ==
    \E p \in Callers :
        req[p].pc = "threw" /\ req[p].calls = 5 /\ req[p].backoffs = 4

-----------------------------------------------------------------------------
(* A further claim about block-converter.ts, checked under SpecConvert.    *)

\* the number of indent pieces that end just before piece k of a string
RECURSIVE IndentBefore(_, _)
IndentBefore(str, k) ==
    IF k > 1 /\ str[k - 1] = "    " THEN 1 + IndentBefore(str, k - 1) ELSE 0

\* the indents of the list markers of a string, in order
MarkerIndents(str) ==
    LET isMarker(k) == \/ str[k] \in {"- ", "- ["}
                       \/ k < Len(str) /\ str[k + 1] = ". "
        marks == SelectSeq([k \in 1 .. Len(str) |-> k], isMarker)
    IN  [j \in 1 .. Len(marks) |-> IndentBefore(str, marks[j])]

ListTypes == {"bulleted_list_item", "numbered_list_item", "to_do"}

\* the levels the claim gives the list items of blocks i .. in document
\* order: one more below a list item, the same below any other block that
\* renders its children, and the same again for the siblings that follow
RECURSIVE Levels(_, _, _)
Levels(blocks, i, level) ==
    IF i > Len(blocks) THEN <<>>
    ELSE LET block == blocks[i]
             below == IF block.type \in ListTypes
                      THEN <<level>> \o Levels(block.children, 1, level + 1)
                      ELSE IF \/ block.type \in WithChildren
                              \/ block.is_toggleable
                           THEN Levels(block.children, 1, level)
                           ELSE <<>>
         IN  below \o Levels(blocks, i + 1, level)

\* C33: the children of a bulleted, numbered or checklist item are converted
\* one indent level deeper, the children of any other block at its own level,
\* and the siblings after a subtree at the level used before it.
C33_IndentPerSubtree ==
    Converted => MarkerIndents(cvOut.text) = Levels(cvJob.blocks, 1, 0)

\* a list item over a list item over a list item, followed by a sibling:
\* indents 0, 1, 2 and 0 again
C33_Witness ==
    /\ Converted
    /\ Len(cvJob.blocks) = 2
    /\ cvJob.blocks[1].type \in ListTypes
    /\ Len(cvJob.blocks[1].children) = 1
    /\ cvJob.blocks[1].children[1].type \in ListTypes
    /\ cvJob.blocks[1].children[1].has_children
    /\ MarkerIndents(cvOut.text) = <<0, 1, 2, 0>>

-----------------------------------------------------------------------------
(* A claim about concurrent fresh imports, checked under SpecRace.         *)

\* the folders that hold a record of the collection
SyncedFolders ==
    {f \in OutputFolders : \E i \in 1 .. Len(rvault[f]) : CacheDb(rvault[f][i]) = ThisDb}

\* C38: when a fresh import starts while another import of the collection is
\* running and has written no record yet, at most one of the two writes
\* records, and the collection's records end up in at most one folder.
C38_OneImportWrites ==
    (\E p \in Importers : imp[p].early) =>
        /\ Cardinality({p \in Importers : Written(p) > 0}) <= 1
        /\ Cardinality(SyncedFolders) <= 1

====
